---- MODULE Spec2Model ----
(***************************************************************************)
(* gemara-mcp fetch pipeline: the retrying HTTP transport                  *)
(* (internal/tool/fetcher/http.go) and the version validator / URL builder *)
(* (internal/tool/fetcher, url builder file).                              *)
(*                                                                         *)
(* Strings are TLA+ strings; a character is a string of length one.        *)
(* Durations are signed IntBits-bit integers counted in ticks, Second      *)
(* ticks to the second: the program's int64 nanoseconds at a width TLC's   *)
(* integers can hold.                                                      *)
(***************************************************************************)
EXTENDS Integers, Sequences, FiniteSets, TLC

VARIABLES rt, ub, hf, fs, sv, cc, tr

vars == <<rt, ub, hf, fs, sv, cc, tr>>

(***************************************************************************)
(* Bounds of the model.                                                    *)
(***************************************************************************)
\* width of the machine integer (int64 and time.Duration in the program)
IntBits == 16
\* time.Second is 10^SecondDigits ticks (10^9 in the program)
SecondDigits == 3
\* largest maxRetry a transport is configured with
MaxRetryBound == 3

Modulus == 2 ^ IntBits
MaxInt == 2 ^ (IntBits - 1) - 1
MinInt == -(2 ^ (IntBits - 1))
Second == 10 ^ SecondDigits

\* two's-complement wrap of an integer result to the machine width
WrapInt(x) ==
  LET m == x % Modulus IN IF m > MaxInt THEN m - Modulus ELSE m

(***************************************************************************)
(* Strings.                                                                *)
(***************************************************************************)
\* the i-th character of s
Ch(s, i) == SubSeq(s, i, i)

Chars(s) == {Ch(s, i) : i \in 1 .. Len(s)}

HasPrefix(s, p) == Len(s) >= Len(p) /\ SubSeq(s, 1, Len(p)) = p

HasSuffix(s, p) == Len(s) >= Len(p) /\ SubSeq(s, Len(s) - Len(p) + 1, Len(s)) = p

\* strings.Index and strings.LastIndex for a one-character separator,
\* counted from 1; 0 when the separator does not occur
Index(s, c) ==
  LET I == {i \in 1 .. Len(s) : Ch(s, i) = c}
  IN  IF I = {} THEN 0 ELSE CHOOSE i \in I : \A j \in I : i <= j

LastIndex(s, c) ==
  LET I == {i \in 1 .. Len(s) : Ch(s, i) = c}
  IN  IF I = {} THEN 0 ELSE CHOOSE i \in I : \A j \in I : i >= j

Count(s, c) == Cardinality({i \in 1 .. Len(s) : Ch(s, i) = c})

\* strings.Cut
Cut(s, c) ==
  LET i == Index(s, c)
  IN  IF i = 0 THEN [before |-> s, after |-> "", found |-> FALSE]
      ELSE [before |-> SubSeq(s, 1, i - 1), after |-> SubSeq(s, i + 1, Len(s)),
            found |-> TRUE]

\* the strings over the characters of alphabet of length at most n
RECURSIVE StringsUpTo(_, _)
StringsUpTo(alphabet, n) ==
  IF n = 0 THEN {""}
  ELSE LET S == StringsUpTo(alphabet, n - 1)
       IN  S \cup {s \o c : s \in {t \in S : Len(t) = n - 1}, c \in Chars(alphabet)}

Digits == Chars("0123456789")

DigitVal(c) ==
  CASE c = "0" -> 0 [] c = "1" -> 1 [] c = "2" -> 2 [] c = "3" -> 3
    [] c = "4" -> 4 [] c = "5" -> 5 [] c = "6" -> 6 [] c = "7" -> 7
    [] c = "8" -> 8 [] c = "9" -> 9

(***************************************************************************)
(* strconv.ParseInt(v, 10, 64) as retryAfter uses it: the value and        *)
(* whether an error came with it.  A syntax error gives 0; a value out of  *)
(* range gives the nearest bound together with a range error.              *)
(***************************************************************************)
\* ParseUint: the digits accumulated, saturating above the unsigned range
RECURSIVE ParseUintFrom(_, _, _)
ParseUintFrom(s, i, acc) ==
  IF i > Len(s) THEN [val |-> acc, err |-> IF acc >= Modulus THEN "range" ELSE "nil"]
  ELSE IF Ch(s, i) \notin Digits THEN [val |-> 0, err |-> "syntax"]
  ELSE LET n == acc * 10 + DigitVal(Ch(s, i))
       IN ParseUintFrom(s, i + 1, IF n >= Modulus THEN Modulus ELSE n)

ParseInt(s) ==
  IF s = "" THEN [val |-> 0, err |-> "syntax"]
  ELSE
    LET neg  == Ch(s, 1) = "-"
        body == IF Ch(s, 1) \in {"+", "-"} THEN SubSeq(s, 2, Len(s)) ELSE s
        un   == IF body = "" THEN [val |-> 0, err |-> "syntax"]
                ELSE ParseUintFrom(body, 1, 0)
    IN  IF un.err = "syntax" THEN [val |-> 0, err |-> "syntax"]
        ELSE IF ~neg /\ un.val > MaxInt THEN [val |-> MaxInt, err |-> "range"]
        ELSE IF neg /\ un.val > MaxInt + 1 THEN [val |-> MinInt, err |-> "range"]
        ELSE [val |-> IF neg THEN -un.val ELSE un.val, err |-> "nil"]

(***************************************************************************)
(* Responses and errors of one transport attempt.                          *)
(***************************************************************************)
NilResp == [nil |-> TRUE, status |-> 0, hdr |-> ""]
Resp(status, hdr) == [nil |-> FALSE, status |-> status, hdr |-> hdr]

\* errors: "nil", a network timeout, any other transport error, and the two
\* context errors (context.DeadlineExceeded reports Timeout() = true)
IsTimeout(err) == err \in {"timeout", "deadline"}

\* isRetryable with every 4xx status retried
isRetryableAny4xx(resp, err) ==
  IF err # "nil"
  THEN IF IsTimeout(err) THEN [retry |-> TRUE, err |-> "nil"]
       ELSE [retry |-> FALSE, err |-> err]
  ELSE [retry |-> resp.status = 0 \/ resp.status >= 400, err |-> "nil"]

\* isRetryable with 500 itself left out of the server-error range
isRetryableAbove500(resp, err) ==
  IF err # "nil"
  THEN IF IsTimeout(err) THEN [retry |-> TRUE, err |-> "nil"]
       ELSE [retry |-> FALSE, err |-> err]
  ELSE IF resp.status = 408 \/ resp.status = 429 THEN [retry |-> TRUE, err |-> "nil"]
  ELSE IF resp.status = 0 \/ resp.status > 500 THEN [retry |-> TRUE, err |-> "nil"]
  ELSE [retry |-> FALSE, err |-> "nil"]

\* isRetryable with every transport error retried
isRetryableAnyError(resp, err) ==
  IF err # "nil" THEN [retry |-> TRUE, err |-> "nil"]
  ELSE IF resp.status = 408 \/ resp.status = 429 THEN [retry |-> TRUE, err |-> "nil"]
  ELSE IF resp.status = 0 \/ resp.status >= 500 THEN [retry |-> TRUE, err |-> "nil"]
  ELSE [retry |-> FALSE, err |-> "nil"]

\* isRetryable(resp, err)
isRetryable(resp, err) ==
  IF err # "nil"
  THEN IF IsTimeout(err) THEN [retry |-> TRUE, err |-> "nil"]
       ELSE [retry |-> FALSE, err |-> err]
  ELSE IF resp.status = 408 \/ resp.status = 429 THEN [retry |-> TRUE, err |-> "nil"]
  ELSE IF resp.status = 0 \/ resp.status >= 500 THEN [retry |-> TRUE, err |-> "nil"]
  ELSE [retry |-> FALSE, err |-> "nil"]

\* retryAfter(resp): hdr is what resp.Header.Get("Retry-After") returns
retryAfter(resp) ==
  IF resp.nil THEN 0
  ELSE IF resp.hdr # ""
       THEN LET seconds == ParseInt(resp.hdr).val
            IN  IF seconds > 0 THEN WrapInt(seconds * Second) ELSE 0
       ELSE 0

(***************************************************************************)
(* Characters.  Ctl stands for a control byte (NUL, TAB, ...): the code    *)
(* treats every control byte but the newline regexp case alike.            *)
(***************************************************************************)
LowerAlphabet == "abcdefghijklmnopqrstuvwxyz"
UpperAlphabet == "ABCDEFGHIJKLMNOPQRSTUVWXYZ"
Lower == Chars(LowerAlphabet)
Upper == Chars(UpperAlphabet)
Letters == Lower \cup Upper
Ctl == "\t"
ControlBytes == {Ctl, "\n"}

\* strings.ToLower
LowerOf(c) == IF c \in Upper THEN Ch(LowerAlphabet, Index(UpperAlphabet, c)) ELSE c

RECURSIVE ToLower(_)
ToLower(s) == IF s = "" THEN "" ELSE LowerOf(Ch(s, 1)) \o ToLower(Tail(s))

(***************************************************************************)
(* ValidateVersion: validVersionPattern is                                 *)
(*   ^(v\d+\.\d+\.\d+(-[\w.]+)?|latest)$                                   *)
(* matched by running the automaton of its first alternative over the      *)
(* whole string; \d is [0-9] and \w is [0-9A-Za-z_].                       *)
(***************************************************************************)
WordChars == Letters \cup Digits \cup {"_"}

\* automaton states: "start", "v", "major", "dot1", "minor", "dot2",
\* "patch", "dash", "pre"; "fail" is the dead state
SemverStep(q, c) ==
  CASE q = "start" -> IF c = "v" THEN "v" ELSE "fail"
    [] q = "v"     -> IF c \in Digits THEN "major" ELSE "fail"
    [] q = "major" -> IF c \in Digits THEN "major" ELSE IF c = "." THEN "dot1" ELSE "fail"
    [] q = "dot1"  -> IF c \in Digits THEN "minor" ELSE "fail"
    [] q = "minor" -> IF c \in Digits THEN "minor" ELSE IF c = "." THEN "dot2" ELSE "fail"
    [] q = "dot2"  -> IF c \in Digits THEN "patch" ELSE "fail"
    [] q = "patch" -> IF c \in Digits THEN "patch" ELSE IF c = "-" THEN "dash" ELSE "fail"
    [] q = "dash"  -> IF c \in WordChars \cup {"."} THEN "pre" ELSE "fail"
    [] q = "pre"   -> IF c \in WordChars \cup {"."} THEN "pre" ELSE "fail"
    [] OTHER       -> "fail"

RECURSIVE SemverRun(_, _, _)
SemverRun(s, i, q) ==
  IF i > Len(s) THEN q ELSE SemverRun(s, i + 1, SemverStep(q, Ch(s, i)))

\* the pattern without its closing $: a match may stop before the end
RECURSIVE SemverPrefixAccepted(_, _, _)
SemverPrefixAccepted(s, i, q) ==
  \/ q \in {"patch", "pre"}
  \/ i <= Len(s) /\ SemverPrefixAccepted(s, i + 1, SemverStep(q, Ch(s, i)))

validVersionPatternUnanchored(version) ==
  SemverPrefixAccepted(version, 1, "start") \/ HasPrefix(version, "latest")

\* validVersionPattern.MatchString(version)
validVersionPattern(version) ==
  SemverRun(version, 1, "start") \in {"patch", "pre"} \/ version = "latest"

NoError == [kind |-> "nil", arg |-> ""]
Err(kind, arg) == [kind |-> kind, arg |-> arg]

\* ValidateVersion(version): the error names the rejected version
ValidateVersion(version) ==
  IF ~validVersionPattern(version) THEN Err("invalid version", version) ELSE NoError

(***************************************************************************)
(* net/url: Parse and URL.String, for strings without '%' and '['.         *)
(***************************************************************************)
EmptyURL ==
  [Scheme |-> "", Opaque |-> "", HasUser |-> FALSE, User |-> "", Host |-> "",
   Path |-> "", RawPath |-> "", OmitHost |-> FALSE, ForceQuery |-> FALSE,
   RawQuery |-> "", Fragment |-> "", RawFragment |-> ""]

ParseOK(u) == [url |-> u, err |-> "nil"]
ParseErr(e) == [url |-> EmptyURL, err |-> e]

\* the %XX escape of a character
PctOf(c) ==
  CASE c = " " -> "%20" [] c = "#" -> "%23" [] c = "/" -> "%2F"
    [] c = ":" -> "%3A" [] c = "?" -> "%3F" [] c = "@" -> "%40"
    [] c = Ctl -> "%09" [] c = "\n" -> "%0A"

\* shouldEscape(c, mode), mode one of "host", "path", "userpw", "fragment"
shouldEscape(c, mode) ==
  IF c \in Letters \cup Digits THEN FALSE
  ELSE IF mode = "host" /\ c \in Chars("!$&'()*+,;=:[]<>\"") THEN FALSE
  ELSE IF c \in Chars("-_.~") THEN FALSE
  ELSE IF c \in Chars("$&+,/:;=?@")
       THEN CASE mode = "path"     -> c \in {";", ",", "?"}
              [] mode = "userpw"   -> c \in {"@", "/", "?", ":"}
              [] mode = "fragment" -> FALSE
              [] OTHER             -> TRUE
  ELSE IF mode = "fragment" /\ c \in Chars("!()*") THEN FALSE
  ELSE TRUE

\* escape(s, mode)
RECURSIVE escape(_, _)
escape(s, mode) ==
  IF s = "" THEN ""
  ELSE (IF shouldEscape(Ch(s, 1), mode) THEN PctOf(Ch(s, 1)) ELSE Ch(s, 1))
       \o escape(Tail(s), mode)

\* validEncoded(s, mode)
validEncoded(s, mode) ==
  \A i \in 1 .. Len(s) :
    \/ Ch(s, i) \in Chars("!$&'()*+,;=:@[]%")
    \/ ~shouldEscape(Ch(s, i), mode)

\* getScheme(rawURL)
RECURSIVE getSchemeFrom(_, _)
getSchemeFrom(rawURL, i) ==
  IF i > Len(rawURL) THEN [scheme |-> "", rest |-> rawURL, err |-> "nil"]
  ELSE LET c == Ch(rawURL, i)
       IN  IF c \in Letters THEN getSchemeFrom(rawURL, i + 1)
           ELSE IF c \in Digits \cup {"+", "-", "."}
                THEN IF i = 1 THEN [scheme |-> "", rest |-> rawURL, err |-> "nil"]
                     ELSE getSchemeFrom(rawURL, i + 1)
           ELSE IF c = ":"
                THEN IF i = 1
                     THEN [scheme |-> "", rest |-> "", err |-> "missing protocol scheme"]
                     ELSE [scheme |-> SubSeq(rawURL, 1, i - 1),
                           rest |-> SubSeq(rawURL, i + 1, Len(rawURL)), err |-> "nil"]
           ELSE [scheme |-> "", rest |-> rawURL, err |-> "nil"]

getScheme(rawURL) == getSchemeFrom(rawURL, 1)

\* validOptionalPort(port)
validOptionalPort(port) ==
  \/ port = ""
  \/ Ch(port, 1) = ":" /\ Chars(Tail(port)) \subseteq Digits

\* parseHost(host): the port check, then unescape in host mode, which
\* rejects every character shouldEscape flags
parseHost(host) ==
  LET i == LastIndex(host, ":")
  IN  IF i # 0 /\ ~validOptionalPort(SubSeq(host, i, Len(host)))
      THEN [host |-> "", err |-> "invalid port"]
      ELSE IF \E k \in 1 .. Len(host) : shouldEscape(Ch(host, k), "host")
      THEN [host |-> "", err |-> "invalid character in host name"]
      ELSE [host |-> host, err |-> "nil"]

\* validUserinfo(s)
validUserinfo(s) ==
  Chars(s) \subseteq Letters \cup Digits \cup Chars("-._:~!$&'()*+,;=%@")

\* parseAuthority(authority), from the host parsed after the last '@' at i
authorityParsed(h, i, userinfo) ==
  IF h.err # "nil" THEN [hasUser |-> FALSE, user |-> "", host |-> "", err |-> h.err]
  ELSE IF i = 0 THEN [hasUser |-> FALSE, user |-> "", host |-> h.host, err |-> "nil"]
  ELSE IF ~validUserinfo(userinfo)
       THEN [hasUser |-> FALSE, user |-> "", host |-> "", err |-> "invalid userinfo"]
  ELSE [hasUser |-> TRUE, user |-> userinfo, host |-> h.host, err |-> "nil"]

authoritySplit(authority, i) ==
  authorityParsed(parseHost(SubSeq(authority, i + 1, Len(authority))), i,
                  SubSeq(authority, 1, i - 1))

\* parseAuthority(authority)
parseAuthority(authority) == authoritySplit(authority, LastIndex(authority, "@"))

\* URL.setPath(p)
setPath(u, p) ==
  [u EXCEPT !.Path = p, !.RawPath = IF escape(p, "path") = p THEN "" ELSE p]

\* URL.setFragment(f)
setFragment(u, f) ==
  [u EXCEPT !.Fragment = f, !.RawFragment = IF escape(f, "fragment") = f THEN "" ELSE f]

\* parse: the query split off what follows the scheme
splitQuery(rest) ==
  IF HasSuffix(rest, "?") /\ Count(rest, "?") = 1
  THEN [rest |-> SubSeq(rest, 1, Len(rest) - 1), force |-> TRUE, query |-> ""]
  ELSE [rest |-> Cut(rest, "?").before, force |-> FALSE, query |-> Cut(rest, "?").after]

\* parse: what follows "//" split at its first '/', at k
splitAuthority(s, k) ==
  IF k = 0 THEN [authority |-> s, path |-> ""]
  ELSE [authority |-> SubSeq(s, 1, k - 1), path |-> SubSeq(s, k, Len(s))]

\* parse: url.User, url.Host set from the authority, then setPath
withAuthority(u, a, path) ==
  IF a.err # "nil" THEN ParseErr(a.err)
  ELSE ParseOK(setPath([u EXCEPT !.HasUser = a.hasUser, !.User = a.user,
                                 !.Host = a.host], path))

authorityAndPath(u, sp) == withAuthority(u, parseAuthority(sp.authority), sp.path)

\* parse: opaque, authority, and path of rest, the scheme and query being set
parseRest(u, rest) ==
  IF ~HasPrefix(rest, "/") /\ u.Scheme # ""
  THEN ParseOK([u EXCEPT !.Opaque = rest])
  ELSE IF ~HasPrefix(rest, "/") /\ Index(Cut(rest, "/").before, ":") # 0
  THEN ParseErr("first path segment in URL cannot contain colon")
  ELSE IF (u.Scheme # "" \/ ~HasPrefix(rest, "///")) /\ HasPrefix(rest, "//")
  THEN authorityAndPath(u, splitAuthority(SubSeq(rest, 3, Len(rest)),
                                          Index(SubSeq(rest, 3, Len(rest)), "/")))
  ELSE IF u.Scheme # "" /\ HasPrefix(rest, "/")
  THEN ParseOK(setPath([u EXCEPT !.OmitHost = TRUE], rest))
  ELSE ParseOK(setPath(u, rest))

parseQuery(scheme, q) ==
  parseRest([EmptyURL EXCEPT !.Scheme = scheme, !.ForceQuery = q.force,
                             !.RawQuery = q.query], q.rest)

parseScheme(g) ==
  IF g.err # "nil" THEN ParseErr(g.err)
  ELSE parseQuery(ToLower(g.scheme), splitQuery(g.rest))

\* parse(rawURL, viaRequest = false): rawURL without its fragment
parse(rawURL) ==
  IF Chars(rawURL) \cap ControlBytes # {}
  THEN ParseErr("invalid control character in URL")
  ELSE IF rawURL = "*" THEN ParseOK([EmptyURL EXCEPT !.Path = "*"])
  ELSE parseScheme(getScheme(rawURL))

withFragment(r, frag) ==
  IF r.err # "nil" \/ frag = "" THEN r ELSE ParseOK(setFragment(r.url, frag))

\* url.Parse(rawURL)
Parse(rawURL) == withFragment(parse(Cut(rawURL, "#").before), Cut(rawURL, "#").after)

\* Userinfo.String()
UserString(user) ==
  LET c == Cut(user, ":")
  IN  escape(c.before, "userpw")
      \o (IF c.found THEN ":" \o escape(c.after, "userpw") ELSE "")

\* URL.EscapedPath()
EscapedPath(u) ==
  IF u.RawPath # "" /\ validEncoded(u.RawPath, "path") THEN u.RawPath
  ELSE IF u.Path = "*" THEN "*"
  ELSE escape(u.Path, "path")

\* URL.EscapedFragment()
EscapedFragment(u) ==
  IF u.RawFragment # "" /\ validEncoded(u.RawFragment, "fragment") THEN u.RawFragment
  ELSE escape(u.Fragment, "fragment")

\* URL.String(): the "//", the userinfo and the host
StringAuthority(u) ==
  IF (u.Scheme # "" \/ u.Host # "" \/ u.HasUser)
     /\ ~(u.OmitHost /\ u.Host = "" /\ ~u.HasUser)
  THEN (IF u.Host # "" \/ u.Path # "" \/ u.HasUser THEN "//" ELSE "")
       \o (IF u.HasUser THEN UserString(u.User) \o "@" ELSE "")
       \o escape(u.Host, "host")
  ELSE ""

\* URL.String(): the path after what has been written so far
StringPath(u, sofar, path) ==
  (IF path # "" /\ Ch(path, 1) # "/" /\ u.Host # "" THEN "/"
   ELSE IF sofar = "" /\ Index(Cut(path, "/").before, ":") # 0 THEN "./"
   ELSE "")
  \o path

StringHier(u, scheme, auth) ==
  scheme
  \o (IF u.Opaque # "" THEN u.Opaque
      ELSE auth \o StringPath(u, scheme \o auth, EscapedPath(u)))
  \o (IF u.ForceQuery \/ u.RawQuery # "" THEN "?" \o u.RawQuery ELSE "")
  \o (IF u.Fragment # "" THEN "#" \o EscapedFragment(u) ELSE "")

\* URL.String()
String(u) ==
  StringHier(u, IF u.Scheme # "" THEN u.Scheme \o ":" ELSE "", StringAuthority(u))

(***************************************************************************)
(* URLBuilder.                                                             *)
(***************************************************************************)
NoBuilder == [ok |-> FALSE, base |-> EmptyURL, suffix |-> ""]

\* NewURLBuilder with the host checked before the scheme
newURLBuilderHostFirst(r, suffix) ==
  IF r.err # "nil" THEN [builder |-> NoBuilder, err |-> Err("invalid base URL", r.err)]
  ELSE IF r.url.Host = ""
       THEN [builder |-> NoBuilder, err |-> Err("base URL must have a host", "")]
  ELSE IF r.url.Scheme # "https"
       THEN [builder |-> NoBuilder, err |-> Err("base URL must use HTTPS", r.url.Scheme)]
  ELSE [builder |-> [ok |-> TRUE, base |-> r.url, suffix |-> suffix], err |-> NoError]

\* NewURLBuilder from the result of url.Parse(baseURL) on
newURLBuilderParsed(r, suffix) ==
  IF r.err # "nil" THEN [builder |-> NoBuilder, err |-> Err("invalid base URL", r.err)]
  ELSE IF r.url.Scheme # "https"
       THEN [builder |-> NoBuilder, err |-> Err("base URL must use HTTPS", r.url.Scheme)]
  ELSE IF r.url.Host = ""
       THEN [builder |-> NoBuilder, err |-> Err("base URL must have a host", "")]
  ELSE [builder |-> [ok |-> TRUE, base |-> r.url, suffix |-> suffix], err |-> NoError]

\* NewURLBuilder(baseURL, suffix)
NewURLBuilder(baseURL, suffix) == newURLBuilderParsed(Parse(baseURL), suffix)

\* the check of scheme and host left out of Build
OriginDiffersNever(result, base) == FALSE

\* result.Scheme != b.base.Scheme || result.Host != b.base.Host
OriginDiffers(result, base) ==
  result.Scheme # base.Scheme \/ result.Host # base.Host

\* Build from the parse of the concatenation on
buildParsed(b, r, ran) ==
  IF r.err # "nil"
  THEN [url |-> "", err |-> Err("constructed invalid URL", r.err),
        steps |-> ran \cup {"concat", "parse"}]
  ELSE IF OriginDiffers(r.url, b.base)
  THEN [url |-> "", err |-> Err("unexpected origin", r.url.Scheme \o "://" \o r.url.Host),
        steps |-> ran \cup {"concat", "parse", "origin"}]
  ELSE [url |-> String(r.url), err |-> NoError,
        steps |-> ran \cup {"concat", "parse", "origin"}]

\* Build with the version not validated until the URL has passed the
\* origin check
buildValidated(res, verr) ==
  IF res.err = NoError /\ verr # NoError
  THEN [url |-> "", err |-> verr, steps |-> res.steps \cup {"validate"}]
  ELSE res

BuildValidateLast(b, version) ==
  buildValidated(buildParsed(b, Parse(String(b.base) \o version \o b.suffix), {}),
                 ValidateVersion(version))

\* Build with the suffix left out of the concatenation
BuildOmitsSuffix(b, version) ==
  IF ValidateVersion(version) # NoError
  THEN [url |-> "", err |-> ValidateVersion(version), steps |-> {"validate"}]
  ELSE buildParsed(b, Parse(String(b.base) \o version), {"validate"})

\* URLBuilder.Build(version): the URL, the error, and the steps it ran
Build(b, version) ==
  IF ValidateVersion(version) # NoError
  THEN [url |-> "", err |-> ValidateVersion(version), steps |-> {"validate"}]
  ELSE buildParsed(b, Parse(String(b.base) \o version \o b.suffix), {"validate"})

NoResult == [url |-> "", err |-> NoError, steps |-> {}]

NoURLState ==
  [op |-> "none", baseURL |-> "", suffix |-> "",
   new |-> [builder |-> NoBuilder, err |-> NoError],
   version |-> "", res |-> NoResult, verr |-> NoError]

(***************************************************************************)
(* State of one RoundTrip call on a retryTransport.                        *)
(*   maxRetry, wait    the transport's fields                              *)
(*   body              the request body: "nil", "noGetBody" (Body set,     *)
(*                     GetBody nil) or "getBody" (both set)                *)
(*   attempt, resp, respErr, shouldRetry, retryErr, timer                  *)
(*                     the locals of the loop (timer: the wait it is       *)
(*                     armed with)                                         *)
(*   ctx               the request context: "live", or the error of a     *)
(*                     done context ("canceled", "deadline")               *)
(*   pc                "attempt": about to call the underlying transport;  *)
(*                     "select": timer armed, select not yet evaluated;    *)
(*                     "parked": blocked in the select; "done": returned   *)
(*   timerFired, sel   whether timer.C is ready; the case that woke the    *)
(*                     parked select                                       *)
(*   retResp, retErr   what RoundTrip returned                             *)
(*   calls             attempts issued to the underlying transport         *)
(*   outs              per attempt, the kind of its outcome                *)
(*   closed            times the transport closed the body of resp         *)
(*   sleeps            timers armed since the call began                   *)
(*   rebuilds          times req.Body was replaced by what GetBody gave    *)
(*   getBodyErr        whether the last attempt called GetBody and got an  *)
(*                     error                                               *)
(***************************************************************************)
Statuses == {0, 200, 204, 404, 408, 429, 499, 500, 503}
\* a Retry-After value beyond the integer range at the widths modelled
LongHdr == "66666"
\* a Retry-After value whose tick count wraps to exactly 0
ZeroHdr == ToString(2 ^ (IntBits - 3))
\* Retry-After values: absent or empty, zero, negative, signed, small,
\* large enough for the tick count to wrap, non-numeric, out of range
HdrValues ==
  {"", "0", "-1", "+6", "1", "6", "60", "66", "x", "6x", LongHdr, ZeroHdr}

Responses == {Resp(st, h) : st \in Statuses, h \in HdrValues}

\* what one call of http.DefaultTransport.RoundTrip can give back: a
\* response and no error, or no response and an error
Outcomes(ctx) ==
  IF ctx # "live" THEN {[resp |-> NilResp, err |-> ctx]}
  ELSE {[resp |-> r, err |-> "nil"] : r \in Responses}
       \cup {[resp |-> NilResp, err |-> e] : e \in {"timeout", "other"}}

\* the kind of an outcome: transient (the glossary's retryable outcome),
\* a final status, or a permanent transport error
OutcomeKind(out) ==
  IF out.err # "nil"
  THEN IF out.err \in {"timeout", "deadline"} THEN "transient" ELSE "error"
  ELSE IF out.resp.status \in {0, 408, 429} \/ out.resp.status >= 500
       THEN "transient" ELSE "final"

NewCall(maxRetry, wait, body) ==
  [maxRetry |-> maxRetry, wait |-> wait, body |-> body,
   pc |-> "attempt", attempt |-> 0,
   resp |-> NilResp, respErr |-> "nil",
   shouldRetry |-> FALSE, retryErr |-> "nil", timer |-> 0,
   ctx |-> "live", timerFired |-> FALSE, sel |-> "none",
   retResp |-> NilResp, retErr |-> "nil",
   calls |-> 0, outs |-> <<>>, closed |-> 0, sleeps |-> 0,
   rebuilds |-> 0, getBodyErr |-> FALSE]

\* return resp, err
Return(st, resp, err) ==
  [st EXCEPT !.pc = "done", !.retResp = resp, !.retErr = err]

\* the retry path with the body of the response left open
CloseBodyNever(st) == st

\* _ = resp.Body.Close(), guarded by respErr == nil
CloseBody(st) ==
  IF st.respErr = "nil" THEN [st EXCEPT !.closed = @ + 1] ELSE st

\* the wait taken from every Retry-After that gives a duration other than 0
NextWaitUnchecked(st) ==
  LET ra == retryAfter(st.resp) IN IF ra # 0 THEN ra ELSE st.wait

\* wait := t.wait; if ra := retryAfter(resp); ra > 0 { wait = ra }
NextWait(st) ==
  LET ra == retryAfter(st.resp) IN IF ra > 0 THEN ra ELSE st.wait

\* return resp, respErr with a transient last outcome replaced by an error
ReturnLastSynth(st) ==
  IF st.respErr = "nil" /\ (st.resp.status \in {0, 408, 429} \/ st.resp.status >= 500)
  THEN Return(st, NilResp, "exhausted")
  ELSE Return(st, st.resp, st.respErr)

\* return resp, respErr
ReturnLast(st) == Return(st, st.resp, st.respErr)

\* the retry bound compared one attempt late
ExhaustedOffByOne(st) == st.attempt > st.maxRetry

\* if attempt >= t.maxRetry
Exhausted(st) == st.attempt >= st.maxRetry

\* req.Body = body, when the request has a body
RebuildBody(st) ==
  IF st.body # "nil" THEN [st EXCEPT !.rebuilds = @ + 1] ELSE st

\* the loop body with the request retried whatever its body
RoundTripAttemptAnyBody(st, out, getBodyOK) ==
  LET s1 == [st EXCEPT !.resp = out.resp, !.respErr = out.err,
                       !.calls = @ + 1, !.closed = 0, !.getBodyErr = FALSE,
                       !.outs = Append(@, OutcomeKind(out))]
      cls == isRetryable(out.resp, out.err)
      s2 == [s1 EXCEPT !.shouldRetry = cls.retry, !.retryErr = cls.err]
  IN  IF Exhausted(st) THEN ReturnLast(s1)
      ELSE IF cls.err # "nil" THEN Return(CloseBody(s2), NilResp, cls.err)
      ELSE IF ~cls.retry THEN ReturnLast(s2)
      ELSE [CloseBody(s2) EXCEPT !.timer = NextWait(s2), !.pc = "select",
                                 !.timerFired = FALSE, !.sel = "none",
                                 !.sleeps = @ + 1]

\* the loop body from the transport call to the return or the armed timer;
\* getBodyOK: whether req.GetBody(), if called, succeeds
RoundTripAttempt(st, out, getBodyOK) ==
  LET s1 == [st EXCEPT !.resp = out.resp, !.respErr = out.err,
                       !.calls = @ + 1, !.closed = 0, !.getBodyErr = FALSE,
                       !.outs = Append(@, OutcomeKind(out))]
      cls == isRetryable(out.resp, out.err)
      s2 == [s1 EXCEPT !.shouldRetry = cls.retry, !.retryErr = cls.err]
  IN  IF Exhausted(st) THEN ReturnLast(s1)
      ELSE IF cls.err # "nil" THEN Return(CloseBody(s2), NilResp, cls.err)
      ELSE IF ~cls.retry THEN ReturnLast(s2)
      ELSE IF st.body # "nil" /\ st.body = "noGetBody" THEN ReturnLast(s2)
      ELSE IF st.body # "nil" /\ ~getBodyOK
           THEN ReturnLast([s2 EXCEPT !.getBodyErr = TRUE])
      ELSE [CloseBody(RebuildBody(s2)) EXCEPT
              !.timer = NextWait(s2), !.pc = "select",
              !.timerFired = FALSE, !.sel = "none", !.sleeps = @ + 1]

\* the cases of the select that are ready
ReadyCases(st) ==
  (IF st.ctx # "live" THEN {"ctx"} ELSE {})
  \cup (IF st.timerFired THEN {"timer"} ELSE {})

\* the select with the ctx.Done() case falling through like the timer
SelectCaseNoCancel(st, case) ==
  [st EXCEPT !.pc = "attempt", !.attempt = @ + 1]

\* the select with the timer case waiting once more for the same attempt
SelectCaseWaitsAgain(st, case) ==
  IF case = "ctx" THEN Return(st, NilResp, st.ctx)
  ELSE [st EXCEPT !.pc = "select", !.timerFired = FALSE, !.sel = "none"]

\* the body of the chosen case: ctx.Done() returns nil and ctx.Err();
\* timer.C falls through to the next iteration (attempt++)
SelectCase(st, case) ==
  IF case = "ctx" THEN Return(st, NilResp, st.ctx)
  ELSE [st EXCEPT !.pc = "attempt", !.attempt = @ + 1]

(***************************************************************************)
(* HTTPFetcher.  A byte slice is the payload it was cut from and its       *)
(* length: the first len bytes of payload id.                              *)
(***************************************************************************)
defaultMaxResponseBytes == 4 * 1024 * 1024

NilBytes == [nil |-> TRUE, id |-> "", len |-> 0]
Bytes(id, len) == [nil |-> FALSE, id |-> id, len |-> len]

NoFetcher == [ok |-> FALSE, fetchURL |-> "", MaxResponseBytes |-> 0]

\* prefix a message to an error: fmt.Errorf("<msg>: %w", err)
Wrap(msg, err) == Err(msg \o ": " \o err.kind, err.arg)

\* NewHTTPFetcher with a failed Build ignored
NewHTTPFetcherUnchecked(builder, version) ==
  [f |-> [ok |-> TRUE, fetchURL |-> Build(builder, version).url, MaxResponseBytes |-> 0],
   err |-> NoError]

\* NewHTTPFetcher(builder, version): the fetcher (ok = FALSE for nil) and
\* the error
NewHTTPFetcher(builder, version) ==
  IF Build(builder, version).err # NoError
  THEN [f |-> NoFetcher, err |-> Wrap("building fetch URL", Build(builder, version).err)]
  ELSE [f |-> [ok |-> TRUE, fetchURL |-> Build(builder, version).url, MaxResponseBytes |-> 0],
        err |-> NoError]

\* the limit limitReader(r, n) reads up to
limitReader(n) == IF n <= 0 THEN defaultMaxResponseBytes ELSE n

\* io.ReadAll(io.LimitReader(body, n)): everything up to n bytes
ReadAllLimited(body, n) == Bytes(body.id, IF body.len < n THEN body.len ELSE n)

NoFetchResult == [data |-> NilBytes, source |-> "", err |-> NoError]
FetchResult(data, source, err) == [data |-> data, source |-> source, err |-> err]

\* HTTPFetcher.Fetch with every 2xx status taken for a success
HTTPFetcherFetchAny2xx(f, resp, err, body) ==
  IF err # "nil" THEN FetchResult(NilBytes, "", Err("executing request", err))
  ELSE IF resp.status < 200 \/ resp.status > 299
  THEN FetchResult(NilBytes, "", Err("response status code", ToString(resp.status)))
  ELSE IF body.readErr THEN FetchResult(NilBytes, "", Err("reading response body", "read"))
  ELSE FetchResult(ReadAllLimited(body, limitReader(f.MaxResponseBytes)), f.fetchURL, NoError)

\* HTTPFetcher.Fetch with a body longer than the limit reported as an error
HTTPFetcherFetchStrict(f, resp, err, body) ==
  IF err # "nil" THEN FetchResult(NilBytes, "", Err("executing request", err))
  ELSE IF resp.status # 200
  THEN FetchResult(NilBytes, "", Err("response status code", ToString(resp.status)))
  ELSE IF body.readErr \/ body.len > limitReader(f.MaxResponseBytes)
  THEN FetchResult(NilBytes, "", Err("reading response body", "read"))
  ELSE FetchResult(ReadAllLimited(body, limitReader(f.MaxResponseBytes)), f.fetchURL, NoError)

\* HTTPFetcher.Fetch with the status of the response not looked at
HTTPFetcherFetchAnyStatus(f, resp, err, body) ==
  IF err # "nil" THEN FetchResult(NilBytes, "", Err("executing request", err))
  ELSE IF body.readErr THEN FetchResult(NilBytes, "", Err("reading response body", "read"))
  ELSE FetchResult(ReadAllLimited(body, limitReader(f.MaxResponseBytes)), f.fetchURL, NoError)

\* HTTPFetcher.Fetch from the return of defaultClient.Do(req) on: resp and
\* err are what Do returned, body is what reading resp.Body gives
HTTPFetcherFetch(f, resp, err, body) ==
  IF err # "nil" THEN FetchResult(NilBytes, "", Err("executing request", err))
  ELSE IF resp.status # 200
  THEN FetchResult(NilBytes, "", Err("response status code", ToString(resp.status)))
  ELSE IF body.readErr THEN FetchResult(NilBytes, "", Err("reading response body", "read"))
  ELSE FetchResult(ReadAllLimited(body, limitReader(f.MaxResponseBytes)), f.fetchURL, NoError)

NoBody == [id |-> "", len |-> 0, readErr |-> FALSE]

NoHTTPState ==
  [pc |-> "none", f |-> NoFetcher, newErr |-> NoError, body |-> NoBody,
   res |-> NoFetchResult]

(***************************************************************************)
(* The TTL cache: a mapping from a key to (payload, source identifier,     *)
(* inserted-at), read and written under one lock.  Time is counted in      *)
(* ticks; now is the reading of the clock.                                 *)
(***************************************************************************)
\* the cache lifetime (defaultCacheTTL, one hour) in ticks
TTLTicks == 2
\* the clock stops at MaxTime
MaxTime == 3

NewCache(ttl) == [ttl |-> ttl, entries |-> [k \in {} |-> 0]]

NotFound == [data |-> NilBytes, source |-> "", found |-> FALSE]

\* Get with an entry still served at the age of exactly the TTL
GetInclusive(cache, key, now) ==
  IF key \in DOMAIN cache.entries /\ now - cache.entries[key].at <= cache.ttl
  THEN [data |-> cache.entries[key].data, source |-> cache.entries[key].source,
        found |-> TRUE]
  ELSE NotFound

\* Get with the age of an entry not looked at
GetForever(cache, key, now) ==
  IF key \in DOMAIN cache.entries
  THEN [data |-> cache.entries[key].data, source |-> cache.entries[key].source,
        found |-> TRUE]
  ELSE NotFound

\* Cache.Get(key) at time now
Get(cache, key, now) ==
  IF key \in DOMAIN cache.entries /\ now - cache.entries[key].at < cache.ttl
  THEN [data |-> cache.entries[key].data, source |-> cache.entries[key].source,
        found |-> TRUE]
  ELSE NotFound

\* the mapping after a Get that drops the entry it finds expired
AfterGetEvicts(cache, key, now) ==
  IF key \in DOMAIN cache.entries /\ now - cache.entries[key].at >= cache.ttl
  THEN [cache EXCEPT !.entries = [k \in DOMAIN @ \ {key} |-> @[k]]]
  ELSE cache

\* the mapping after Cache.Get(key) at time now: Get only reads
AfterGet(cache, key, now) == cache

\* Cache.Set(key, data, source) at time now
Set(cache, key, data, source, now) ==
  [cache EXCEPT !.entries =
     [k \in DOMAIN @ \cup {key} |->
        IF k = key THEN [data |-> data, source |-> source, at |-> now] ELSE @[k]]]

(***************************************************************************)
(* The tool handlers and CachedFetcher.  A request is one call of          *)
(* getLexicon or getSchemaDocs:                                            *)
(*   pc       "idle"; "rejected": the handler returned the error of        *)
(*            NewHTTPFetcher; "start": CachedFetcher.Fetch called; "net":  *)
(*            the wrapped fetch is under way; "set": it has succeeded;     *)
(*            "done": CachedFetcher.Fetch has returned res                 *)
(*   source   the key of the CachedFetcher, f.URL()                        *)
(*   gets, sets, fetches   calls of Cache.Get, Cache.Set and of the        *)
(*            wrapped Fetch made for the request                           *)
(***************************************************************************)
defaultSchemaVersion == "latest"
defaultLexiconVersion == "v0.19.1"
lexiconBaseURL == "https://raw.githubusercontent.com/gemaraproj/gemara/"
lexiconPathSuffix == "/docs/lexicon.yaml"
schemaDocsBaseURL == "https://registry.cue.works/docs/github.com/gemaraproj/gemara@"

\* the builders NewAdvisoryMode configures
lexiconURLBuilder == NewURLBuilder(lexiconBaseURL, lexiconPathSuffix).builder
schemaDocsURLBuilder == NewURLBuilder(schemaDocsBaseURL, "").builder

\* getLexicon with the version passed on as it came
getLexiconNoDefault(version) == NewHTTPFetcher(lexiconURLBuilder, version)

\* getLexicon and getSchemaDocs up to the construction of the fetcher
getLexicon(version) ==
  NewHTTPFetcher(lexiconURLBuilder, IF version = "" THEN defaultLexiconVersion ELSE version)

getSchemaDocs(version) ==
  NewHTTPFetcher(schemaDocsURLBuilder, IF version = "" THEN defaultSchemaVersion ELSE version)

NoRequest ==
  [pc |-> "idle", tool |-> "", version |-> "", refresh |-> FALSE, source |-> "",
   f |-> NoFetcher, res |-> NoFetchResult, hit |-> FALSE,
   gets |-> 0, sets |-> 0, fetches |-> 0]

\* the handler with the name of the tool as the key of the CachedFetcher
handleKeyedByTool(tool, version, refresh, nf) ==
  IF nf.err # NoError
  THEN [NoRequest EXCEPT !.pc = "rejected", !.tool = tool, !.version = version,
                         !.refresh = refresh,
                         !.res = FetchResult(NilBytes, "", nf.err)]
  ELSE [NoRequest EXCEPT !.pc = "start", !.tool = tool, !.version = version,
                         !.refresh = refresh, !.f = nf.f, !.source = tool]

\* the handler from its entry to the call of GetLexicon or GetSchemaDocs on
\* the CachedFetcher, or to its return of the error; nf is what
\* NewHTTPFetcher returned
handle(tool, version, refresh, nf) ==
  IF nf.err # NoError
  THEN [NoRequest EXCEPT !.pc = "rejected", !.tool = tool, !.version = version,
                         !.refresh = refresh,
                         !.res = FetchResult(NilBytes, "", nf.err)]
  ELSE [NoRequest EXCEPT !.pc = "start", !.tool = tool, !.version = version,
                         !.refresh = refresh, !.f = nf.f, !.source = nf.f.fetchURL]

\* CachedFetcher.Fetch with the cache never consulted
CachedFetchStartNoCache(r, cache, now) == [r EXCEPT !.pc = "net"]

\* CachedFetcher.Fetch with the cache consulted whatever refresh is
CachedFetchStartAlwaysGet(r, cache, now) ==
  IF Get(cache, r.source, now).found
  THEN [r EXCEPT !.pc = "done", !.gets = @ + 1, !.hit = TRUE,
                 !.res = FetchResult(Get(cache, r.source, now).data,
                                     Get(cache, r.source, now).source, NoError)]
  ELSE [r EXCEPT !.pc = "net", !.gets = @ + 1]

\* CachedFetcher.Fetch with a hit stored again before it is returned
CachedFetchStartStoresHit(r, cache, now) ==
  IF ~r.refresh
  THEN IF Get(cache, r.source, now).found
       THEN [r EXCEPT !.pc = "set", !.gets = @ + 1, !.hit = TRUE,
                      !.res = FetchResult(Get(cache, r.source, now).data,
                                          Get(cache, r.source, now).source, NoError)]
       ELSE [r EXCEPT !.pc = "net", !.gets = @ + 1]
  ELSE [r EXCEPT !.pc = "net"]

\* CachedFetcher.Fetch up to the call of the wrapped fetcher: with refresh
\* false the cache is read and a hit returned
CachedFetchStart(r, cache, now) ==
  IF ~r.refresh
  THEN IF Get(cache, r.source, now).found
       THEN [r EXCEPT !.pc = "done", !.gets = @ + 1, !.hit = TRUE,
                      !.res = FetchResult(Get(cache, r.source, now).data,
                                          Get(cache, r.source, now).source, NoError)]
       ELSE [r EXCEPT !.pc = "net", !.gets = @ + 1]
  ELSE [r EXCEPT !.pc = "net"]

\* CachedFetcher.Fetch with the outcome of a failed fetch stored as well
CachedFetchFetchedStoresAll(r, result) ==
  [r EXCEPT !.pc = "set", !.fetches = @ + 1, !.res = result]

\* CachedFetcher.Fetch with a fresh result returned and not stored
CachedFetchFetchedNoSet(r, result) ==
  IF result.err # NoError
  THEN [r EXCEPT !.pc = "done", !.fetches = @ + 1,
                 !.res = FetchResult(NilBytes, "", result.err)]
  ELSE [r EXCEPT !.pc = "done", !.fetches = @ + 1, !.res = result]

\* CachedFetcher.Fetch from the return of c.fetcher.Fetch(ctx) on: an error
\* is returned as it is, with nil bytes and no source
CachedFetchFetched(r, result) ==
  IF result.err # NoError
  THEN [r EXCEPT !.pc = "done", !.fetches = @ + 1,
                 !.res = FetchResult(NilBytes, "", result.err)]
  ELSE [r EXCEPT !.pc = "set", !.fetches = @ + 1, !.res = result]

\* c.cache.Set(c.source, data, sourceID); return data, sourceID, nil
CachedFetchSet(r) == [r EXCEPT !.pc = "done", !.sets = @ + 1]

\* what is remembered of a request once the next one is being handled: its
\* key, its refresh flag, how it ended ("none": there was no request;
\* "rejected"; "hit"; "failed": the wrapped fetch failed; "stored": it
\* succeeded and was stored), the wrapped fetches it made and, when stored,
\* the payload
NoSummary ==
  [source |-> "", refresh |-> FALSE, kind |-> "none", fetches |-> 0, data |-> NilBytes]

Summary(r) ==
  IF r.pc = "idle" THEN NoSummary
  ELSE IF r.pc = "rejected"
  THEN [NoSummary EXCEPT !.kind = "rejected"]
  ELSE [source |-> r.source, refresh |-> r.refresh, fetches |-> r.fetches,
        kind |-> IF r.hit THEN "hit" ELSE IF r.sets > 0 THEN "stored" ELSE "failed",
        data |-> IF r.sets > 0 THEN r.res.data ELSE NilBytes]

\* the state of the process: the shared cache, the clock, the request being
\* handled and the summary of the request handled before it
NoFetchState ==
  [cache |-> NewCache(TTLTicks), now |-> 0, req |-> NoRequest, prev |-> NoSummary]

(***************************************************************************)
(* The prompt handlers.  A GetPromptRequest is whether Params and          *)
(* Params.Arguments are non-nil and the Arguments map; a lookup of a key   *)
(* the map lacks gives the empty string.  The embedded templates are cut   *)
(* down to lines that carry the placeholders.                              *)
(***************************************************************************)
maxPromptArgLen == 200

ComponentFirstChars == Letters \cup Digits
ComponentChars == ComponentFirstChars \cup {" ", ".", "_", "-"}
IDPrefixChars == Upper \cup Digits \cup {".", "-"}

\* validComponentPattern.MatchString: ^[a-zA-Z0-9][a-zA-Z0-9 ._-]*$
validComponentPattern(value) ==
  /\ Len(value) >= 1
  /\ Ch(value, 1) \in ComponentFirstChars
  /\ \A i \in 2 .. Len(value) : Ch(value, i) \in ComponentChars

\* validIDPrefixPattern.MatchString: ^[A-Z0-9.-]+$
validIDPrefixPattern(value) ==
  /\ Len(value) >= 1
  /\ \A i \in 1 .. Len(value) : Ch(value, i) \in IDPrefixChars

\* validateComponent with no limit on the length
validateComponentNoLimit(value) ==
  IF value = "" THEN Err("component argument is required", "")
  ELSE IF ~validComponentPattern(value) THEN Err("component must match", value)
  ELSE NoError

validateComponent(value) ==
  IF value = "" THEN Err("component argument is required", "")
  ELSE IF Len(value) > maxPromptArgLen
  THEN Err("component argument exceeds maximum length of", ToString(maxPromptArgLen))
  ELSE IF ~validComponentPattern(value) THEN Err("component must match", value)
  ELSE NoError

validateIDPrefix(value) ==
  IF value = "" THEN Err("id_prefix argument is required", "")
  ELSE IF Len(value) > maxPromptArgLen
  THEN Err("id_prefix argument exceeds maximum length of", ToString(maxPromptArgLen))
  ELSE IF ~validIDPrefixPattern(value) THEN Err("id_prefix must match", value)
  ELSE NoError

threatAssessmentSystemTemplate ==
  "Threat Catalog for: **${COMPONENT}** (ID prefix: ${ID_PREFIX}). All ${ID_PREFIX} values must strictly follow the regex ^[A-Z0-9.-]+$. id: ${ID_PREFIX} title: ${COMPONENT} Security Threat Catalog"
controlCatalogSystemTemplate ==
  "Control Catalog for: **${COMPONENT}** (ID prefix: ${ID_PREFIX}). All ${ID_PREFIX} values must strictly follow the regex ^[A-Z0-9.-]+$. id: ${ID_PREFIX} title: ${COMPONENT} Security Control Catalog"
threatAssessmentUserTemplate == "threats of ${COMPONENT} with ${ID_PREFIX}"
controlCatalogUserTemplate == "controls of ${COMPONENT} with ${ID_PREFIX}"

\* a replacer that knows ${COMPONENT} only
RECURSIVE ReplaceComponentOnly(_, _, _)
ReplaceComponentOnly(text, component, idPrefix) ==
  IF Index(text, "$") = 0 THEN text
  ELSE IF Index(text, "$") > 1
  THEN SubSeq(text, 1, Index(text, "$") - 1)
       \o ReplaceComponentOnly(SubSeq(text, Index(text, "$"), Len(text)),
                               component, idPrefix)
  ELSE IF HasPrefix(text, "${COMPONENT}")
  THEN component \o ReplaceComponentOnly(
                       SubSeq(text, Len("${COMPONENT}") + 1, Len(text)),
                       component, idPrefix)
  ELSE "$" \o ReplaceComponentOnly(Tail(text), component, idPrefix)

\* strings.NewReplacer("${COMPONENT}", component, "${ID_PREFIX}", idPrefix)
\* applied to text: one pass from the left, what is put in is not looked
\* at again
RECURSIVE Replace(_, _, _)
Replace(text, component, idPrefix) ==
  IF Index(text, "$") = 0 THEN text
  ELSE IF Index(text, "$") > 1
  THEN SubSeq(text, 1, Index(text, "$") - 1)
       \o Replace(SubSeq(text, Index(text, "$"), Len(text)), component, idPrefix)
  ELSE IF HasPrefix(text, "${COMPONENT}")
  THEN component \o Replace(SubSeq(text, Len("${COMPONENT}") + 1, Len(text)),
                            component, idPrefix)
  ELSE IF HasPrefix(text, "${ID_PREFIX}")
  THEN idPrefix \o Replace(SubSeq(text, Len("${ID_PREFIX}") + 1, Len(text)),
                           component, idPrefix)
  ELSE "$" \o Replace(Tail(text), component, idPrefix)

NilPromptResult == [nil |-> TRUE, Description |-> "", Messages |-> <<>>]

\* req.Params.Arguments[key]
Argument(req, key) == IF key \in DOMAIN req.args THEN req.args[key] ELSE ""

\* the body the two handlers share, up to the wording of the description
\* and the templates
handlePrompt(wizard, systemTemplate, userTemplate, req) ==
  IF ~req.params \/ ~req.arguments
  THEN [result |-> NilPromptResult, err |-> Err("component argument is required", "")]
  ELSE IF validateComponent(Argument(req, "component")) # NoError
  THEN [result |-> NilPromptResult, err |-> validateComponent(Argument(req, "component"))]
  ELSE IF validateIDPrefix(Argument(req, "id_prefix")) # NoError
  THEN [result |-> NilPromptResult, err |-> validateIDPrefix(Argument(req, "id_prefix"))]
  ELSE [result |->
          [nil |-> FALSE,
           Description |-> wizard \o " wizard for " \o Argument(req, "component")
                           \o " (" \o Argument(req, "id_prefix") \o ")",
           Messages |->
             <<[Role |-> "assistant",
                Text |-> Replace(systemTemplate, Argument(req, "component"),
                                 Argument(req, "id_prefix"))],
               [Role |-> "user",
                Text |-> Replace(userTemplate, Argument(req, "component"),
                                 Argument(req, "id_prefix"))]>>],
        err |-> NoError]

HandleControlCatalog(req) ==
  handlePrompt("Control catalog", controlCatalogSystemTemplate,
               controlCatalogUserTemplate, req)

HandleThreatAssessment(req) ==
  handlePrompt("Threat assessment", threatAssessmentSystemTemplate,
               threatAssessmentUserTemplate, req)

(***************************************************************************)
(* The modes and the server they register on: the names of the tools and   *)
(* of the prompts it lists.                                                *)
(***************************************************************************)
MetadataGetLexicon == "get_lexicon"
MetadataValidateGemaraArtifact == "validate_gemara_artifact"
MetadataGetSchemaDocs == "get_schema_docs"
PromptThreatAssessment == "threat_assessment"
PromptControlCatalog == "control_catalog"

NewServer == [nil |-> FALSE, tools |-> {}, prompts |-> {}]
NilServer == [nil |-> TRUE, tools |-> {}, prompts |-> {}]
AddTool(server, name) == [server EXCEPT !.tools = @ \cup {name}]
AddPrompt(server, name) == [server EXCEPT !.prompts = @ \cup {name}]

\* AdvisoryMode.Register with the validation tool left out
AdvisoryModeRegisterTwoTools(server) ==
  AddTool(AddTool(server, MetadataGetLexicon), MetadataGetSchemaDocs)

AdvisoryModeRegister(server) ==
  AddTool(AddTool(AddTool(server, MetadataGetLexicon),
                  MetadataValidateGemaraArtifact),
          MetadataGetSchemaDocs)

ArtifactModeRegister(server) ==
  AddPrompt(AddPrompt(AdvisoryModeRegister(server), PromptThreatAssessment),
            PromptControlCatalog)

\* NewAdvisoryMode, which NewArtifactMode hands on: the error of either
\* builder, wrapped
NewAdvisoryMode ==
  IF NewURLBuilder(lexiconBaseURL, lexiconPathSuffix).err # NoError
  THEN Wrap("configuring lexicon URL",
            NewURLBuilder(lexiconBaseURL, lexiconPathSuffix).err)
  ELSE IF NewURLBuilder(schemaDocsBaseURL, "").err # NoError
  THEN Wrap("configuring schema docs URL", NewURLBuilder(schemaDocsBaseURL, "").err)
  ELSE NoError

\* the serve command: the mode named by --mode is made and registered on a
\* new server
serve(modeName) ==
  IF modeName \notin {"advisory", "artifact"}
  THEN [modeName |-> modeName, server |-> NilServer,
        err |-> Err("unknown mode", modeName)]
  ELSE IF NewAdvisoryMode # NoError
  THEN [modeName |-> modeName, server |-> NilServer,
        err |-> Wrap("initializing " \o modeName \o " mode", NewAdvisoryMode)]
  ELSE [modeName |-> modeName,
        server |-> IF modeName = "advisory" THEN AdvisoryModeRegister(NewServer)
                   ELSE ArtifactModeRegister(NewServer),
        err |-> NoError]

NilRequest == [params |-> FALSE, arguments |-> FALSE, args |-> [k \in {} |-> ""]]

\* the process: what serve made, and the last prompt handler call
NoServerState ==
  [modeName |-> "", server |-> NilServer, err |-> NoError,
   handler |-> "", req |-> NilRequest,
   res |-> [result |-> NilPromptResult, err |-> NoError]]

(***************************************************************************)
(* Concurrent callers of CachedFetcher.Fetch on one cache.  The mapping of *)
(* the cache is guarded by one lock, held for the length of a Get or a Set *)
(* and not while the wrapped fetch runs.  A Set writes the payload of the  *)
(* entry and then its source and inserted-at; a Get reads the entry in one *)
(* step.                                                                   *)
(*   mu        the caller holding the lock, "" when it is free             *)
(*   p[c].r    the call of caller c, a request as above                    *)
(*   p[c].cs   where c is in the cache: "out", "get" (lock held for a      *)
(*             Get), "set1" (lock held for a Set), "set2" (payload         *)
(*             written)                                                    *)
(*   lastSet   per key, the entry of the Set on it that returned last      *)
(*   first     the caller whose call began first                           *)
(***************************************************************************)
Callers == {"c1", "c2"}
ConcKeys == {"k1", "k2"}
\* the clock of this specification stops at ConcMaxTime
ConcMaxTime == 1

\* a lock that never makes a caller wait
CanLockAlways(mu) == TRUE

\* whether Lock() on the cache's lock returns now
CanLock(mu) == mu = ""

\* a Get that keeps the lock when it has found nothing
GetUnlockOnHitOnly(c, found) == IF found THEN "" ELSE c

\* the holder of the lock once Cache.Get of caller c has returned: nobody
GetUnlock(c, found) == ""

\* the first write of a Set that leaves a stored payload as it is
SetPayloadIfAbsent(cache, key, data) ==
  IF key \in DOMAIN cache.entries THEN cache
  ELSE [cache EXCEPT !.entries =
          [k \in DOMAIN @ \cup {key} |->
             IF k = key THEN [data |-> data, source |-> "", at |-> 0] ELSE @[k]]]

\* the first write of a Set: the payload
SetPayload(cache, key, data) ==
  IF key \in DOMAIN cache.entries
  THEN [cache EXCEPT !.entries[key].data = data]
  ELSE [cache EXCEPT !.entries =
          [k \in DOMAIN @ \cup {key} |->
             IF k = key THEN [data |-> data, source |-> "", at |-> 0] ELSE @[k]]]

\* the second write of a Set: the source identifier and the inserted-at
SetStamp(cache, key, source, now) ==
  [cache EXCEPT !.entries[key].source = source, !.entries[key].at = now]

\* what the wrapped fetcher of each caller answers: a payload and a source
\* identifier of its own ("c0" made the entry a run may start with)
CallerPayload(c) == Bytes(c, 1)
CallerSource(c) == "from-" \o c

NoProc == [r |-> NoRequest, cs |-> "out"]

NoConcState ==
  [cache |-> NewCache(TTLTicks), mu |-> "", now |-> 0,
   p |-> [c \in Callers |-> NoProc],
   lastSet |-> NewCache(TTLTicks).entries, first |-> ""]

(***************************************************************************)
(* Concurrent calls of RoundTrip on the one retryTransport of              *)
(* defaultClient.  The transport is its two fields; attempt, resp, the     *)
(* timer and the context belong to the call.                               *)
(*   tr.t         the transport: maxRetry and wait                         *)
(*   tr.calls[c]  the call of caller c, as above; "idle" before it begins  *)
(***************************************************************************)
\* a transport that gives up one retry of its bound with every wait
AfterAttemptSpendsRetry(t, st) ==
  IF st.pc = "select" THEN [t EXCEPT !.maxRetry = @ - 1] ELSE t

\* the transport after a pass of the loop of RoundTrip: the loop reads
\* t.maxRetry and t.wait and writes neither
AfterAttempt(t, st) == t

\* the call as the loop sees it: the bound and the wait are read from the
\* transport
OnTransport(t, st) == [st EXCEPT !.maxRetry = t.maxRetry, !.wait = t.wait]

IdleCall == [NewCall(0, 0, "nil") EXCEPT !.pc = "idle"]

NoTransportState ==
  [t |-> [maxRetry |-> 0, wait |-> 0], calls |-> [c \in Callers |-> IdleCall]]

(***************************************************************************)
(* Actions of the RoundTrip specification.                                 *)
(***************************************************************************)
WaitConfigs == {1, Second}
BodyKinds == {"nil", "noGetBody", "getBody"}

Init ==
  /\ \E n \in -1 .. MaxRetryBound, w \in WaitConfigs, b \in BodyKinds :
       rt = NewCall(n, w, b)
  /\ ub = NoURLState
  /\ hf = NoHTTPState
  /\ sv = NoServerState
  /\ cc = NoConcState
  /\ tr = NoTransportState
  /\ fs = NoFetchState

Attempt ==
  /\ rt.pc = "attempt"
  /\ \E out \in Outcomes(rt.ctx), ok \in BOOLEAN :
       rt' = RoundTripAttempt(rt, out, ok)
  /\ UNCHANGED <<ub, hf, fs, sv, cc, tr>>

\* select evaluated: a ready case runs, chosen freely when both are ready;
\* with none ready the goroutine parks
SelectEval ==
  /\ rt.pc = "select"
  /\ IF ReadyCases(rt) = {}
     THEN rt' = [rt EXCEPT !.pc = "parked"]
     ELSE \E c \in ReadyCases(rt) : rt' = SelectCase(rt, c)
  /\ UNCHANGED <<ub, hf, fs, sv, cc, tr>>

\* the timer expires; a parked select is woken with the timer case
TimerFire ==
  /\ rt.pc \in {"select", "parked"}
  /\ ~rt.timerFired
  /\ rt' = [rt EXCEPT !.timerFired = TRUE,
                      !.sel = IF rt.pc = "parked" /\ @ = "none" THEN "timer" ELSE @]
  /\ UNCHANGED <<ub, hf, fs, sv, cc, tr>>

\* the caller cancels the context, or its deadline passes; a parked select
\* is woken with the ctx.Done() case
CtxCancel ==
  /\ rt.pc # "done"
  /\ rt.ctx = "live"
  /\ \E e \in {"canceled", "deadline"} :
       rt' = [rt EXCEPT !.ctx = e,
                        !.sel = IF rt.pc = "parked" /\ @ = "none" THEN "ctx" ELSE @]
  /\ UNCHANGED <<ub, hf, fs, sv, cc, tr>>

\* the woken select runs the case that woke it
Resume ==
  /\ rt.pc = "parked"
  /\ rt.sel # "none"
  /\ rt' = SelectCase(rt, rt.sel)
  /\ UNCHANGED <<ub, hf, fs, sv, cc, tr>>

Next == Attempt \/ SelectEval \/ TimerFire \/ CtxCancel \/ Resume

Spec == Init /\ [][Next]_vars

\* RoundTrip under the conditions of termination: an attempt issued to the
\* underlying transport returns, an armed timer fires, a goroutine that can
\* run does; nothing is assumed of the cancellation of the context.  The
\* outcomes of an attempt are one of each kind, with and without a
\* Retry-After.
LiveOutcomes(ctx) ==
  IF ctx # "live" THEN {[resp |-> NilResp, err |-> ctx]}
  ELSE {[resp |-> Resp(st, h), err |-> "nil"] : st \in {200, 429, 503}, h \in {"", "1"}}
       \cup {[resp |-> NilResp, err |-> e] : e \in {"timeout", "other"}}

AttemptLive ==
  /\ rt.pc = "attempt"
  /\ \E out \in LiveOutcomes(rt.ctx), ok \in BOOLEAN :
       rt' = RoundTripAttempt(rt, out, ok)
  /\ UNCHANGED <<ub, hf, fs, sv, cc, tr>>

NextLive == AttemptLive \/ SelectEval \/ TimerFire \/ CtxCancel \/ Resume

SpecLive ==
  /\ Init /\ [][NextLive]_vars
  /\ WF_vars(AttemptLive) /\ WF_vars(SelectEval)
  /\ WF_vars(TimerFire) /\ WF_vars(Resume)

(***************************************************************************)
(* The transport specification: two requests go through the one transport  *)
(* at the same time, each with its own context; the steps of their calls   *)
(* of RoundTrip interleave freely.                                         *)
(***************************************************************************)
\* the bounds the transport is configured with: 1, and the 3 of
\* newRetryTransport
TransportBounds == {1, MaxRetryBound}

InitTransport ==
  /\ \E n \in TransportBounds :
       tr = [NoTransportState EXCEPT !.t = [maxRetry |-> n, wait |-> Second]]
  /\ rt = NewCall(0, Second, "nil")
  /\ ub = NoURLState
  /\ hf = NoHTTPState
  /\ fs = NoFetchState
  /\ sv = NoServerState
  /\ cc = NoConcState

\* defaultClient.Do hands a request without body to RoundTrip
TrCall ==
  /\ \E c \in Callers :
       /\ tr.calls[c].pc = "idle"
       /\ tr' = [tr EXCEPT !.calls[c] = NewCall(tr.t.maxRetry, tr.t.wait, "nil")]
  /\ UNCHANGED <<rt, ub, hf, fs, sv, cc>>

TrAttempt ==
  /\ \E c \in Callers :
       /\ tr.calls[c].pc = "attempt"
       /\ \E out \in LiveOutcomes(tr.calls[c].ctx) :
            tr' = [tr EXCEPT
                     !.calls[c] = RoundTripAttempt(OnTransport(tr.t, @), out, TRUE),
                     !.t = AfterAttempt(@, RoundTripAttempt(
                                             OnTransport(tr.t, tr.calls[c]), out, TRUE))]
  /\ UNCHANGED <<rt, ub, hf, fs, sv, cc>>

TrSelectEval ==
  /\ \E c \in Callers :
       /\ tr.calls[c].pc = "select"
       /\ IF ReadyCases(tr.calls[c]) = {}
          THEN tr' = [tr EXCEPT !.calls[c].pc = "parked"]
          ELSE \E case \in ReadyCases(tr.calls[c]) :
                 tr' = [tr EXCEPT !.calls[c] = SelectCase(@, case)]
  /\ UNCHANGED <<rt, ub, hf, fs, sv, cc>>

TrTimerFire ==
  /\ \E c \in Callers :
       /\ tr.calls[c].pc \in {"select", "parked"}
       /\ ~tr.calls[c].timerFired
       /\ tr' = [tr EXCEPT
                   !.calls[c].timerFired = TRUE,
                   !.calls[c].sel = IF tr.calls[c].pc = "parked" /\ @ = "none"
                                    THEN "timer" ELSE @]
  /\ UNCHANGED <<rt, ub, hf, fs, sv, cc>>

\* the context of one request is cancelled
TrCtxCancel ==
  /\ \E c \in Callers :
       /\ tr.calls[c].pc \notin {"idle", "done"}
       /\ tr.calls[c].ctx = "live"
       /\ tr' = [tr EXCEPT
                   !.calls[c].ctx = "canceled",
                   !.calls[c].sel = IF tr.calls[c].pc = "parked" /\ @ = "none"
                                    THEN "ctx" ELSE @]
  /\ UNCHANGED <<rt, ub, hf, fs, sv, cc>>

TrResume ==
  /\ \E c \in Callers :
       /\ tr.calls[c].pc = "parked"
       /\ tr.calls[c].sel # "none"
       /\ tr' = [tr EXCEPT !.calls[c] = SelectCase(@, tr.calls[c].sel)]
  /\ UNCHANGED <<rt, ub, hf, fs, sv, cc>>

NextTransport ==
  \/ TrCall \/ TrAttempt \/ TrSelectEval \/ TrTimerFire \/ TrCtxCancel \/ TrResume

SpecTransport == InitTransport /\ [][NextTransport]_vars

(***************************************************************************)
(* The URL builder specification: a builder is constructed from a base and *)
(* a suffix, then Build and ValidateVersion are called on version strings. *)
(*   ub.op       "none": nothing constructed; "new": NewURLBuilder has     *)
(*               returned; "build", "validate": the call has returned      *)
(*   ub.baseURL, ub.suffix  the arguments NewURLBuilder was called with    *)
(*   ub.new      what NewURLBuilder returned: the builder (ok = FALSE when *)
(*               there is none) and the error                              *)
(*   ub.version  the argument of the last Build or ValidateVersion         *)
(*   ub.res      what Build returned; ub.verr what ValidateVersion did     *)
(***************************************************************************)
\* longest version string enumerated in full
MaxVerLen == 2

BaseURLs ==
  {"https://a.b/x/", "https://a.b/p@", "https://a.b", "https://a.b:1",
   "https://u@a.b/", "https://a.b/?q=", "https://a.b/#f", "Https://a.b/",
   "http://a.b/", "a.b/x", "https:///x", "https://a b/", ":a"}

Suffixes == {"", "/d.y", "@e.f/x", "/a b", "?x#y", ":2/z"}

\* versions the tests and the specification name
VersionSeeds ==
  {"v1.2.3", "v0.19.1", "v1.0.0-rc.1", "latest", "1.2.3", "", "../../x",
   "v1.0.0?q=x", "v1.0.0#f", "v1.0.0/../e", "v1.0.0 ", "https://e.f/x",
   "v1.0.0\t", "v1.2.3\n", "@e.f", "v1.2.3.e.f", "v1.2.3-"}

EditAlphabet == "v1.-aZ_/?# @:\t\n"

\* every string one inserted, replaced or deleted character away from s
OneEdit(s) ==
  {SubSeq(s, 1, i) \o c \o SubSeq(s, i + 1, Len(s)) :
     i \in 0 .. Len(s), c \in Chars(EditAlphabet)}
  \cup {SubSeq(s, 1, i - 1) \o c \o SubSeq(s, i + 1, Len(s)) :
     i \in 1 .. Len(s), c \in Chars(EditAlphabet)}
  \cup {SubSeq(s, 1, i - 1) \o SubSeq(s, i + 1, Len(s)) : i \in 1 .. Len(s)}

Versions ==
  VersionSeeds
  \cup OneEdit("v1.2.3") \cup OneEdit("v1.0.0-rc.1") \cup OneEdit("latest")
  \cup StringsUpTo(EditAlphabet, MaxVerLen)

InitURL ==
  /\ ub = NoURLState
  /\ rt = NewCall(0, Second, "nil")
  /\ hf = NoHTTPState
  /\ sv = NoServerState
  /\ cc = NoConcState
  /\ tr = NoTransportState
  /\ fs = NoFetchState

NewURLBuilderCall ==
  /\ ub.op = "none"
  /\ \E base \in BaseURLs, suffix \in Suffixes :
       ub' = [ub EXCEPT !.op = "new", !.baseURL = base, !.suffix = suffix,
                        !.new = NewURLBuilder(base, suffix)]
  /\ UNCHANGED <<rt, hf, fs, sv, cc, tr>>

BuildCall ==
  /\ ub.op = "new"
  /\ ub.new.builder.ok
  /\ \E version \in Versions :
       ub' = [ub EXCEPT !.op = "build", !.version = version,
                        !.res = Build(ub.new.builder, version)]
  /\ UNCHANGED <<rt, hf, fs, sv, cc, tr>>

ValidateVersionCall ==
  /\ ub.op = "none"
  /\ \E version \in Versions :
       ub' = [ub EXCEPT !.op = "validate", !.version = version,
                        !.verr = ValidateVersion(version)]
  /\ UNCHANGED <<rt, hf, fs, sv, cc, tr>>

NextURL == NewURLBuilderCall \/ BuildCall \/ ValidateVersionCall

SpecURL == InitURL /\ [][NextURL]_vars

(***************************************************************************)
(* Properties of RoundTrip.                                                *)
(***************************************************************************)
Last(q) == q[Len(q)]
AllTransient(q) == \A i \in 1 .. Len(q) : q[i] = "transient"
AllButLastTransient(q) == \A i \in 1 .. Len(q) - 1 : q[i] = "transient"

\* C1: with maxRetry = N >= 0 a RoundTrip call issues at most N + 1
\* attempts, and exactly N + 1 once it has returned after transient
\* outcomes only, with no request body and a context never cancelled.
C1_AttemptBound ==
  rt.maxRetry >= 0 =>
    /\ rt.calls <= rt.maxRetry + 1
    /\ (rt.pc = "done" /\ AllTransient(rt.outs) /\ rt.body = "nil" /\ rt.ctx = "live")
         => rt.calls = rt.maxRetry + 1

C1_Witness ==
  /\ rt.pc = "done" /\ rt.maxRetry = MaxRetryBound /\ rt.calls = MaxRetryBound + 1
  /\ AllTransient(rt.outs) /\ rt.body = "nil" /\ rt.ctx = "live"

\* C2: when the call ends on the exhausted retry bound and the last attempt
\* produced a response, that response is returned with a nil error.
C2_ExhaustionReturnsLastResponse ==
  (rt.pc = "done" /\ rt.attempt >= rt.maxRetry /\ ~rt.resp.nil)
    => rt.retResp = rt.resp /\ rt.retErr = "nil"

C2_Witness ==
  /\ rt.pc = "done" /\ rt.maxRetry = 2 /\ rt.attempt = 2 /\ rt.calls = 3
  /\ rt.retResp.status = 503 /\ ~rt.retResp.nil /\ rt.retErr = "nil"

\* C3: once an attempt yields a status that is not retryable, after k
\* transient outcomes, the call has returned that response with a nil
\* error and has issued exactly k + 1 attempts.
C3_FinalStatusEndsCall ==
  (rt.outs # <<>> /\ Last(rt.outs) = "final") =>
    /\ rt.pc = "done"
    /\ ~rt.resp.nil /\ rt.retResp = rt.resp /\ rt.retErr = "nil"
    /\ AllButLastTransient(rt.outs)
    /\ rt.calls = Len(rt.outs) /\ rt.calls = rt.attempt + 1

C3_Witness ==
  /\ rt.pc = "done" /\ rt.outs = <<"transient", "transient", "final">>
  /\ rt.calls = 3 /\ rt.retResp.status = 200 /\ rt.attempt < rt.maxRetry

\* C4: isRetryable reports retryable with no error exactly for a timeout
\* error, or no error and a status of 408, 429, 0 or >= 500; not retryable
\* with no error for every other status; not retryable together with the
\* same error for an error that is no timeout.
C4_Classified == rt.calls > 0 /\ rt.attempt < rt.maxRetry

C4_IsRetryable ==
  C4_Classified =>
    LET timeout == rt.respErr \in {"timeout", "deadline"}
        transientStatus ==
          rt.respErr = "nil"
          /\ (rt.resp.status \in {408, 429, 0} \/ rt.resp.status >= 500)
    IN  /\ (rt.shouldRetry /\ rt.retryErr = "nil") <=> (timeout \/ transientStatus)
        /\ (rt.respErr = "nil" /\ ~transientStatus)
             => (~rt.shouldRetry /\ rt.retryErr = "nil")
        /\ (rt.respErr # "nil" /\ ~timeout)
             => (~rt.shouldRetry /\ rt.retryErr = rt.respErr)

C4_Witness ==
  /\ C4_Classified /\ rt.respErr = "nil" /\ rt.resp.status = 500
  /\ rt.shouldRetry /\ rt.retryErr = "nil"

\* C5: an attempt below the retry bound that fails with a transport error
\* that is no timeout ends the call at once: nil response, the same error,
\* no wait started after it and no further attempt.
C5_PermanentErrorEndsCall ==
  (rt.outs # <<>> /\ Last(rt.outs) = "error" /\ rt.attempt < rt.maxRetry) =>
    /\ rt.pc = "done"
    /\ rt.retResp = NilResp /\ rt.retErr = rt.respErr
    /\ rt.sleeps = rt.attempt /\ rt.calls = rt.attempt + 1

C5_Witness ==
  /\ rt.pc = "done" /\ rt.respErr = "other" /\ rt.retErr = "other"
  /\ rt.attempt = 1 /\ rt.maxRetry = 2 /\ rt.calls = 2

\* C6: a select woken by the cancellation of the context while parked in
\* the wait returns a nil response and the context's error, whether or not
\* the timer has fired, and no attempt is issued after the cancellation.
C6_WokenByCancel(st) == st.pc = "parked" /\ st.sel = "ctx"

C6_CancelInWait ==
  /\ [](C6_WokenByCancel(rt) => ENABLED Resume)
  /\ [][C6_WokenByCancel(rt) =>
          /\ rt'.calls = rt.calls
          /\ \/ C6_WokenByCancel(rt')
             \/ /\ rt'.pc = "done"
                /\ rt'.retResp = NilResp
                /\ rt'.retErr = rt.ctx /\ rt.ctx \in {"canceled", "deadline"}]_vars

C6_Witness ==
  /\ rt.pc = "done" /\ rt.sel = "ctx" /\ ~rt.timerFired
  /\ rt.retResp = NilResp /\ rt.retErr = "canceled" /\ rt.calls = 1

\* the value of a string of decimal digits
RECURSIVE DecimalValue(_)
DecimalValue(s) ==
  IF s = "" THEN 0
  ELSE 10 * DecimalValue(SubSeq(s, 1, Len(s) - 1)) + DigitVal(Ch(s, Len(s)))

\* whether h writes an integer, and the integer it writes
IsIntegerText(h) ==
  LET digits == IF h # "" /\ Ch(h, 1) \in {"+", "-"} THEN SubSeq(h, 2, Len(h)) ELSE h
  IN  digits # "" /\ Chars(digits) \subseteq Digits

IntegerOfText(h) ==
  IF Ch(h, 1) = "-" THEN -DecimalValue(SubSeq(h, 2, Len(h)))
  ELSE IF Ch(h, 1) = "+" THEN DecimalValue(SubSeq(h, 2, Len(h)))
  ELSE DecimalValue(h)

\* C7: the timer armed before a retry runs for exactly s seconds when the
\* previous response carries a Retry-After that writes a positive integer
\* s, whatever the status, and for the configured wait when the header is
\* absent, not a number, zero or negative, or when there is no response.
C7_WaitIsRetryAfterOrFixed ==
  rt.pc \in {"select", "parked"} =>
    LET h == rt.resp.hdr
    IN  rt.timer = IF ~rt.resp.nil /\ IsIntegerText(h) /\ IntegerOfText(h) > 0
                   THEN IntegerOfText(h) * Second
                   ELSE rt.wait

\* h writes an integer that ParseInt cannot hold, or a number of seconds
\* whose count of ticks wraps to 0 or below
OutOfRangeOrWrapped(h) ==
  /\ IsIntegerText(h)
  /\ \/ IntegerOfText(h) > MaxInt
     \/ IntegerOfText(h) < MinInt
     \/ IntegerOfText(h) > 0 /\ WrapInt(IntegerOfText(h) * Second) <= 0

IsDigits(t) == t # "" /\ Chars(t) \subseteq Digits

\* t is <digits>.<digits>.<digits>
IsCore(t) ==
  \E i, j \in 1 .. Len(t) :
    /\ i < j /\ Ch(t, i) = "." /\ Ch(t, j) = "."
    /\ IsDigits(SubSeq(t, 1, i - 1))
    /\ IsDigits(SubSeq(t, i + 1, j - 1))
    /\ IsDigits(SubSeq(t, j + 1, Len(t)))

\* s is v<digits>.<digits>.<digits>, optionally followed by '-' and one or
\* more word characters or dots, or s is "latest"
IsVersionText(s) ==
  \/ s = "latest"
  \/ /\ HasPrefix(s, "v")
     /\ \/ IsCore(Tail(s))
        \/ \E d \in 2 .. Len(s) :
             /\ Ch(s, d) = "-"
             /\ IsCore(SubSeq(s, 2, d - 1))
             /\ d < Len(s)
             /\ Chars(SubSeq(s, d + 1, Len(s))) \subseteq WordChars \cup {"."}

\* C8: ValidateVersion accepts a string iff it is a version text as above;
\* it rejects the empty string, a version without the 'v', and every string
\* with a '/', '?', '#', space or control byte in it or a newline at its end.
C8_ValidateVersion ==
  ub.op = "validate" =>
    /\ (ub.verr = NoError) <=> IsVersionText(ub.version)
    /\ ub.verr # NoError => ub.verr = Err("invalid version", ub.version)
    /\ ( \/ ub.version = ""
         \/ (Ch(ub.version, 1) # "v" /\ ub.version # "latest")
         \/ Chars(ub.version) \cap {"/", "?", "#", " ", Ctl} # {}
         \/ HasSuffix(ub.version, "\n") )
         => ub.verr # NoError

C8_Witness ==
  ub.op = "validate" /\ ub.version = "v1.2.3\n" /\ ub.verr.kind = "invalid version"

\* whether the concatenation Build parses has another origin than the base
ConcatOriginDiffers ==
  LET r == Parse(String(ub.new.builder.base) \o ub.version \o ub.new.builder.suffix)
  IN  /\ r.err = "nil"
      /\ (r.url.Scheme # ub.new.builder.base.Scheme \/ r.url.Host # ub.new.builder.base.Host)

\* the authority of an https URL text: what follows "https://" up to the
\* first '/', '?' or '#'
TextAuthority(s) ==
  LET rest == SubSeq(s, Len("https://") + 1, Len(s))
      E    == {i \in 1 .. Len(rest) : Ch(rest, i) \in {"/", "?", "#"}}
  IN  IF E = {} THEN rest
      ELSE SubSeq(rest, 1, (CHOOSE i \in E : \A j \in E : i <= j) - 1)

\* the host (with port) of an authority: what follows its last '@'
TextHost(a) == SubSeq(a, LastIndex(a, "@") + 1, Len(a))

\* a URL returned by Build reads as scheme https and the host of the base
ReturnedOriginIsBase ==
  (ub.res.err = NoError) =>
    /\ HasPrefix(ub.res.url, "https://")
    /\ ub.new.builder.base.Scheme = "https"
    /\ ub.new.builder.base.Host # ""
    /\ TextHost(TextAuthority(ub.res.url)) = ub.new.builder.base.Host

\* C9 as stated: a URL Build returns has the scheme and host of the base,
\* and every combination whose concatenation parses to another scheme or
\* host is rejected with an 'unexpected origin' error and no URL.
C9_OriginalClaim ==
  ub.op = "build" =>
    /\ ReturnedOriginIsBase
    /\ ConcatOriginDiffers =>
         (ub.res.url = "" /\ ub.res.err.kind = "unexpected origin")

\* C9 amended: a URL Build returns has the scheme and host of the base, and
\* every combination whose concatenation parses to another scheme or host
\* is rejected with no URL: with an 'unexpected origin' error when the
\* version passes validation, with the validator's error when it does not.
C9_OriginPinned ==
  ub.op = "build" =>
    /\ ReturnedOriginIsBase
    /\ ConcatOriginDiffers =>
         /\ ub.res.url = ""
         /\ ub.res.err.kind = IF IsVersionText(ub.version) THEN "unexpected origin"
                              ELSE "invalid version"

C9_Witness ==
  /\ ub.op = "build" /\ IsVersionText(ub.version) /\ ConcatOriginDiffers
  /\ ub.res.url = "" /\ ub.res.err.kind = "unexpected origin"
  /\ ub.new.builder.suffix = "@e.f/x"

\* C10: for a version that fails validation Build returns the validator's
\* error unchanged and an empty URL, having run nothing but the validation:
\* no concatenation, no parse, no origin check.
C10_ValidationFirst ==
  (ub.op = "build" /\ ~IsVersionText(ub.version)) =>
    /\ ub.res.err = Err("invalid version", ub.version)
    /\ ub.res.err = ValidateVersion(ub.version)
    /\ ub.res.url = ""
    /\ ub.res.steps = {"validate"}

C10_Witness ==
  /\ ub.op = "build" /\ ub.version = "https://e.f/x"
  /\ ub.res.url = "" /\ ub.res.err.kind = "invalid version"
  /\ ub.res.steps = {"validate"}

\* C11: NewURLBuilder gives an error and no builder when the parsed base
\* has a scheme other than https (http, or none) or an empty host, and the
\* scheme is the one reported when both fail; it gives a builder holding
\* the parsed base and the suffix for every https base with a host,
\* whatever the suffix.
C11_NewURLBuilder ==
  ub.op = "new" =>
    /\ Parse(ub.baseURL).err = "nil" =>
         /\ Parse(ub.baseURL).url.Scheme # "https" =>
              /\ ~ub.new.builder.ok
              /\ ub.new.err = Err("base URL must use HTTPS", Parse(ub.baseURL).url.Scheme)
         /\ (Parse(ub.baseURL).url.Scheme = "https" /\ Parse(ub.baseURL).url.Host = "") =>
              /\ ~ub.new.builder.ok
              /\ ub.new.err.kind = "base URL must have a host"
         /\ (Parse(ub.baseURL).url.Scheme = "https" /\ Parse(ub.baseURL).url.Host # "") =>
              /\ ub.new.builder.ok /\ ub.new.err = NoError
              /\ ub.new.builder.base = Parse(ub.baseURL).url
              /\ ub.new.builder.suffix = ub.suffix
    /\ ub.baseURL \in {"http://a.b/", "a.b/x"} =>
         (~ub.new.builder.ok /\ ub.new.err.kind = "base URL must use HTTPS")
    /\ ub.baseURL = "https:///x" =>
         (~ub.new.builder.ok /\ ub.new.err.kind = "base URL must have a host")
    /\ ub.baseURL \in {"https://a.b/x/", "https://a.b", "https://a.b/p@"} =>
         (ub.new.builder.ok /\ ub.new.builder.base.Host = "a.b")
    /\ ub.new.builder.ok <=> (ub.new.err = NoError)

\* a scheme-less base, hostless too, is refused for its scheme
C11_Witness ==
  /\ ub.op = "new" /\ ub.baseURL = "a.b/x" /\ ~ub.new.builder.ok
  /\ ub.new.err = Err("base URL must use HTTPS", "")

\* the concatenation Build parses
RawConcat == String(ub.new.builder.base) \o ub.version \o ub.new.builder.suffix

\* characters URL.String() returns as they are wherever they stand
PlainChars == Letters \cup Digits \cup Chars("/.-_~")

\* C12 as stated: a URL Build returns is exactly base string + version +
\* suffix.
C12_OriginalClaim ==
  (ub.op = "build" /\ ub.res.err = NoError) => ub.res.url = RawConcat

\* C12 amended: a URL Build returns is the string form of the parsed
\* concatenation base string + version + suffix, a function of base, suffix
\* and version alone; it is exactly the concatenation when the suffix has
\* only letters, digits and '/', '.', '-', '_', '~' (a base with a path and
\* suffix /d.y, a base ending in '@' and no suffix), while a space in the
\* suffix comes back as %20.
C12_BuildReturnsParsedConcat ==
  (ub.op = "build" /\ ub.res.err = NoError) =>
    /\ ub.res.url = String(Parse(RawConcat).url)
    /\ ub.new.builder.suffix = ub.suffix
    /\ Chars(ub.suffix) \subseteq PlainChars => ub.res.url = RawConcat
    /\ (ub.baseURL = "https://a.b/x/" /\ ub.suffix = "/d.y" /\ ub.version = "v1.2.3")
         => ub.res.url = "https://a.b/x/v1.2.3/d.y"
    /\ (ub.baseURL = "https://a.b/p@" /\ ub.suffix = "")
         => ub.res.url = ub.baseURL \o ub.version
    /\ (ub.baseURL = "https://a.b/x/" /\ ub.suffix = "/a b")
         => ub.res.url = ub.baseURL \o ub.version \o "/a%20b"

C12_Witness ==
  /\ ub.op = "build" /\ ub.res.err = NoError
  /\ ub.baseURL = "https://a.b/x/" /\ ub.suffix = "/a b" /\ ub.version = "v1.2.3"
  /\ ub.res.url = "https://a.b/x/v1.2.3/a%20b"

(***************************************************************************)
(* The request specification: tool requests handled one after the other    *)
(* against the shared cache, while time passes.                            *)
(***************************************************************************)
Tools == {"get_lexicon", "get_schema_docs"}

\* versions a request carries: none, the default of either tool, an
\* absolute URL
FetchVersions ==
  {"", defaultLexiconVersion, defaultSchemaVersion, "https://evil.example/x", "v0.19.10"}

\* the versions each tool is asked for: none, its own default, the URL
RequestVersions(tool) ==
  {"", "https://evil.example/x",
   IF tool = "get_lexicon" THEN defaultLexiconVersion ELSE defaultSchemaVersion}

\* what defaultClient.Do can come back with once the transport is done
FinalOutcomes ==
  {[resp |-> Resp(st, ""), err |-> "nil"] : st \in {200, 503}}
  \cup {[resp |-> NilResp, err |-> e] : e \in {"other", "canceled"}}

\* response bodies: two payloads, one longer than the limit, and a body
\* whose read fails
FetchBodies ==
  {[id |-> "a", len |-> 1, readErr |-> FALSE],
   [id |-> "b", len |-> defaultMaxResponseBytes + 1, readErr |-> FALSE],
   [id |-> "b", len |-> 1, readErr |-> TRUE]}

\* the body of a response that is not a 200: the error page of the server
ErrorBody == [id |-> "e", len |-> 1, readErr |-> FALSE]

\* the bodies an outcome of defaultClient.Do can carry
BodiesOf(out) ==
  IF out.err = "nil" /\ out.resp.status = 200 THEN FetchBodies ELSE {ErrorBody}

\* what NewHTTPFetcher returns to the handler of each tool for each version
Fetchers ==
  [tool \in Tools |->
     [version \in FetchVersions |->
        IF tool = "get_lexicon" THEN getLexicon(version) ELSE getSchemaDocs(version)]]

InitFetch ==
  /\ fs = NoFetchState
  /\ rt = NewCall(0, Second, "nil")
  /\ ub = NoURLState
  /\ hf = NoHTTPState
  /\ sv = NoServerState
  /\ cc = NoConcState
  /\ tr = NoTransportState

\* a request arrives once the one before has been answered
HandleRequest ==
  /\ fs.req.pc \in {"idle", "rejected", "done"}
  /\ \E tool \in Tools, refresh \in BOOLEAN :
     \E version \in RequestVersions(tool) :
       fs' = [fs EXCEPT !.prev = Summary(fs.req),
                        !.req = handle(tool, version, refresh,
                                       Fetchers[tool][version])]
  /\ UNCHANGED <<rt, ub, hf, sv, cc, tr>>

FetchStart ==
  /\ fs.req.pc = "start"
  /\ fs' = [fs EXCEPT !.req = CachedFetchStart(fs.req, fs.cache, fs.now),
                      !.cache = IF fs.req.refresh THEN @
                                ELSE AfterGet(@, fs.req.source, fs.now)]
  /\ UNCHANGED <<rt, ub, hf, sv, cc, tr>>

\* c.fetcher.Fetch(ctx) runs and returns
WrappedFetch ==
  /\ fs.req.pc = "net"
  /\ \E out \in FinalOutcomes :
     \E body \in BodiesOf(out) :
       fs' = [fs EXCEPT !.req = CachedFetchFetched(
                 fs.req, HTTPFetcherFetch(fs.req.f, out.resp, out.err, body))]
  /\ UNCHANGED <<rt, ub, hf, sv, cc, tr>>

CacheSet ==
  /\ fs.req.pc = "set"
  /\ fs' = [fs EXCEPT !.cache = Set(fs.cache, fs.req.source, fs.req.res.data,
                                    fs.req.res.source, fs.now),
                      !.req = CachedFetchSet(fs.req)]
  /\ UNCHANGED <<rt, ub, hf, sv, cc, tr>>

Tick ==
  /\ fs.now < MaxTime
  /\ fs' = [fs EXCEPT !.now = @ + 1]
  /\ UNCHANGED <<rt, ub, hf, sv, cc, tr>>

NextFetch == HandleRequest \/ FetchStart \/ WrappedFetch \/ CacheSet \/ Tick

SpecFetch == InitFetch /\ [][NextFetch]_vars

(***************************************************************************)
(* The shared-cache specification: requests for either tool and for any    *)
(* of the versions, handled one after the other against the one cache.     *)
(* The server answers a fetched URL with a document that names that URL,   *)
(* in one of two revisions; the clock stands still, so that every entry    *)
(* stays live.                                                             *)
(***************************************************************************)
\* revision rev of the document the server keeps under url
ServedBody(url, rev) == [id |-> url, len |-> rev, readErr |-> FALSE]

HandleAnyRequest ==
  /\ fs.req.pc \in {"idle", "rejected", "done"}
  /\ \E tool \in Tools, refresh \in BOOLEAN, version \in FetchVersions :
       fs' = [fs EXCEPT !.req = handle(tool, version, refresh,
                                       Fetchers[tool][version])]
  /\ UNCHANGED <<rt, ub, hf, sv, cc, tr>>

\* c.fetcher.Fetch(ctx) runs against that server and returns
ServedFetch ==
  /\ fs.req.pc = "net"
  /\ \E out \in FinalOutcomes, rev \in {1, 2} :
       fs' = [fs EXCEPT !.req = CachedFetchFetched(
                 fs.req,
                 HTTPFetcherFetch(fs.req.f, out.resp, out.err,
                                  IF out.err = "nil" /\ out.resp.status = 200
                                  THEN ServedBody(fs.req.f.fetchURL, rev)
                                  ELSE ErrorBody))]
  /\ UNCHANGED <<rt, ub, hf, sv, cc, tr>>

NextShared == HandleAnyRequest \/ FetchStart \/ ServedFetch \/ CacheSet

SpecShared == InitFetch /\ [][NextShared]_vars

(***************************************************************************)
(* The HTTPFetcher specification: a fetcher is constructed, its            *)
(* MaxResponseBytes set, and Fetch called; defaultClient.Do runs the       *)
(* request through RoundTrip of the retry transport.                       *)
(*   hf.pc   "none"; "rejected": NewHTTPFetcher returned newErr; "new":    *)
(*           it returned f; "do": Fetch is inside defaultClient.Do;        *)
(*           "done": Fetch has returned res                                *)
(*   hf.body the body of the response, when Fetch read it                  *)
(***************************************************************************)
\* values of the exported field MaxResponseBytes
MaxBytesConfigs == {-1, 0, 2, defaultMaxResponseBytes + 1}

\* response bodies: lengths around the limits, and a body whose read fails
HTTPBodies ==
  {[id |-> "a", len |-> n, readErr |-> FALSE] :
     n \in {0, 1, 2, 3, defaultMaxResponseBytes - 1, defaultMaxResponseBytes,
            defaultMaxResponseBytes + 1, defaultMaxResponseBytes + 2}}
  \cup {[id |-> "a", len |-> 1, readErr |-> TRUE]}

\* the transport of defaultClient: newRetryTransport()
newRetryTransport == [maxRetry |-> 3, wait |-> Second]

InitHTTP ==
  /\ hf = NoHTTPState
  /\ sv = NoServerState
  /\ cc = NoConcState
  /\ tr = NoTransportState
  /\ rt = [NewCall(newRetryTransport.maxRetry, newRetryTransport.wait, "nil")
             EXCEPT !.pc = "idle"]
  /\ ub = NoURLState
  /\ fs = NoFetchState

NewHTTPFetcherCall ==
  /\ hf.pc = "none"
  /\ \E tool \in Tools, m \in MaxBytesConfigs :
     \E version \in RequestVersions(tool) :
       hf' = IF Fetchers[tool][version].err # NoError
             THEN [hf EXCEPT !.pc = "rejected", !.newErr = Fetchers[tool][version].err]
             ELSE [hf EXCEPT !.pc = "new",
                             !.f = [Fetchers[tool][version].f
                                      EXCEPT !.MaxResponseBytes = m]]
  /\ UNCHANGED <<rt, ub, fs, sv, cc, tr>>

\* Fetch builds the GET request, without a body, and calls
\* defaultClient.Do, which hands it to RoundTrip
HTTPFetchStart ==
  /\ hf.pc = "new"
  /\ hf' = [hf EXCEPT !.pc = "do"]
  /\ rt' = [NewCall(newRetryTransport.maxRetry, newRetryTransport.wait, "nil")
              EXCEPT !.ctx = rt.ctx]
  /\ UNCHANGED <<ub, fs, sv, cc, tr>>

\* Do has returned what RoundTrip returned; Fetch checks the status, reads
\* the body and returns
HTTPFetchReturn ==
  /\ hf.pc = "do"
  /\ rt.pc = "done"
  /\ \E body \in HTTPBodies :
       hf' = [hf EXCEPT !.pc = "done",
                        !.body = IF rt.retErr = "nil" /\ rt.retResp.status = 200
                                 THEN body ELSE NoBody,
                        !.res = HTTPFetcherFetch(hf.f, rt.retResp, rt.retErr, body)]
  /\ UNCHANGED <<rt, ub, fs, sv, cc, tr>>

NextHTTP ==
  \/ NewHTTPFetcherCall \/ HTTPFetchStart \/ HTTPFetchReturn
  \/ Attempt \/ SelectEval \/ TimerFire \/ CtxCancel \/ Resume

SpecHTTP == InitHTTP /\ [][NextHTTP]_vars

(***************************************************************************)
(* The server specification: serve registers a mode on a new server, and   *)
(* the prompt handlers are called on requests.                             *)
(***************************************************************************)
ModeNames == {"advisory", "artifact", "producer"}

\* a string of n times the character c
RECURSIVE Repeat(_, _)
Repeat(c, n) ==
  IF n = 0 THEN ""
  ELSE IF n % 2 = 1 THEN c \o Repeat(c, n - 1)
  ELSE Repeat(c \o c, n \div 2)

LongestArg == Repeat("A", maxPromptArgLen)

\* values of an argument: "absent" stands for a map without the key
ComponentArgs ==
  {"absent", "", "container runtime", "kube-apiserver_v2.1", "A", " a", "-a",
   "a\n", "a/b", "${EVIL_VAR}", "${ID_PREFIX}", LongestArg, LongestArg \o "A",
   LongestArg \o "$"}

IDPrefixArgs ==
  {"absent", "", "ACME.PLAT.CR", "A", "acme", "A B", "A_B", "A\n",
   "ACME.${INJECT}", "${COMPONENT}", LongestArg, LongestArg \o "A",
   LongestArg \o "$"}

Arguments(component, idPrefix) ==
  [k \in (IF component = "absent" THEN {} ELSE {"component"})
         \cup (IF idPrefix = "absent" THEN {} ELSE {"id_prefix"}) |->
     IF k = "component" THEN component ELSE idPrefix]

PromptRequests ==
  {NilRequest, [NilRequest EXCEPT !.params = TRUE]}
  \cup {[params |-> TRUE, arguments |-> TRUE, args |-> Arguments(c, i)] :
          c \in ComponentArgs, i \in IDPrefixArgs}

\* what each handler returns for each request
PromptResults ==
  [handler \in {PromptThreatAssessment, PromptControlCatalog} |->
     [req \in PromptRequests |->
        IF handler = PromptThreatAssessment THEN HandleThreatAssessment(req)
        ELSE HandleControlCatalog(req)]]

InitServer ==
  /\ sv = NoServerState
  /\ rt = NewCall(0, Second, "nil")
  /\ ub = NoURLState
  /\ hf = NoHTTPState
  /\ fs = NoFetchState
  /\ cc = NoConcState
  /\ tr = NoTransportState

ServeCall ==
  /\ \E modeName \in ModeNames :
       sv' = [sv EXCEPT !.modeName = modeName,
                        !.server = serve(modeName).server,
                        !.err = serve(modeName).err]
  /\ UNCHANGED <<rt, ub, hf, fs, cc, tr>>

PromptCall ==
  /\ \E handler \in DOMAIN PromptResults, req \in PromptRequests :
       sv' = [sv EXCEPT !.handler = handler, !.req = req,
                        !.res = PromptResults[handler][req]]
  /\ UNCHANGED <<rt, ub, hf, fs, cc, tr>>

NextServer == ServeCall \/ PromptCall

SpecServer == InitServer /\ [][NextServer]_vars

(***************************************************************************)
(* The concurrency specification: each caller makes one call of            *)
(* CachedFetcher.Fetch, on a cache that is empty or holds one entry of an  *)
(* earlier call; the steps of the callers interleave freely.               *)
(***************************************************************************)
InitConc ==
  /\ \E cache \in {NewCache(TTLTicks),
                   Set(NewCache(TTLTicks), "k1", CallerPayload("c0"),
                       CallerSource("c0"), 0)} :
       cc = [NoConcState EXCEPT !.cache = cache, !.lastSet = cache.entries]
  /\ rt = NewCall(0, Second, "nil")
  /\ ub = NoURLState
  /\ hf = NoHTTPState
  /\ fs = NoFetchState
  /\ sv = NoServerState
  /\ tr = NoTransportState

\* a caller calls Fetch on the CachedFetcher of a key
ConcCall ==
  /\ \E c \in Callers, key \in ConcKeys, refresh \in BOOLEAN :
       /\ cc.p[c].r.pc = "idle"
       /\ cc' = [cc EXCEPT
                   !.p[c].r = [NoRequest EXCEPT !.pc = "start", !.source = key,
                                                !.refresh = refresh],
                   !.first = IF @ = "" THEN c ELSE @]
  /\ UNCHANGED <<rt, ub, hf, fs, sv, tr>>

\* with refresh the call goes to the wrapped fetcher; without, it takes the
\* lock for its Get
ConcStart ==
  /\ \E c \in Callers :
       /\ cc.p[c].r.pc = "start" /\ cc.p[c].cs = "out"
       /\ IF cc.p[c].r.refresh
          THEN cc' = [cc EXCEPT !.p[c].r = CachedFetchStart(@, cc.cache, cc.now)]
          ELSE /\ CanLock(cc.mu)
               /\ cc' = [cc EXCEPT !.mu = c, !.p[c].cs = "get"]
  /\ UNCHANGED <<rt, ub, hf, fs, sv, tr>>

\* the Get reads the entry and gives the lock back
ConcGet ==
  /\ \E c \in Callers :
       /\ cc.p[c].cs = "get"
       /\ cc' = [cc EXCEPT
                   !.p[c].r = CachedFetchStart(@, cc.cache, cc.now),
                   !.cache = AfterGet(@, cc.p[c].r.source, cc.now),
                   !.mu = GetUnlock(c, Get(cc.cache, cc.p[c].r.source, cc.now).found),
                   !.p[c].cs = "out"]
  /\ UNCHANGED <<rt, ub, hf, fs, sv, tr>>

\* the wrapped fetch of a caller returns
ConcFetch ==
  /\ \E c \in Callers, ok \in BOOLEAN :
       /\ cc.p[c].r.pc = "net"
       /\ cc' = [cc EXCEPT !.p[c].r = CachedFetchFetched(@,
                   IF ok THEN FetchResult(CallerPayload(c), CallerSource(c), NoError)
                   ELSE FetchResult(NilBytes, "", Err("executing request", "other")))]
  /\ UNCHANGED <<rt, ub, hf, fs, sv, tr>>

\* the Set takes the lock
ConcSetLock ==
  /\ \E c \in Callers :
       /\ cc.p[c].r.pc = "set" /\ cc.p[c].cs = "out"
       /\ CanLock(cc.mu)
       /\ cc' = [cc EXCEPT !.mu = c, !.p[c].cs = "set1"]
  /\ UNCHANGED <<rt, ub, hf, fs, sv, tr>>

ConcSetPayload ==
  /\ \E c \in Callers :
       /\ cc.p[c].cs = "set1"
       /\ cc' = [cc EXCEPT
                   !.cache = SetPayload(@, cc.p[c].r.source, cc.p[c].r.res.data),
                   !.p[c].cs = "set2"]
  /\ UNCHANGED <<rt, ub, hf, fs, sv, tr>>

\* the Set writes the rest of the entry, gives the lock back and returns,
\* and Fetch with it
ConcSetStamp ==
  /\ \E c \in Callers :
       /\ cc.p[c].cs = "set2"
       /\ cc' = [cc EXCEPT
                   !.cache = SetStamp(@, cc.p[c].r.source, cc.p[c].r.res.source,
                                      cc.now),
                   !.lastSet = [k \in DOMAIN @ \cup {cc.p[c].r.source} |->
                                  IF k = cc.p[c].r.source
                                  THEN [data |-> cc.p[c].r.res.data,
                                        source |-> cc.p[c].r.res.source,
                                        at |-> cc.now]
                                  ELSE @[k]],
                   !.mu = "", !.p[c].cs = "out",
                   !.p[c].r = CachedFetchSet(@)]
  /\ UNCHANGED <<rt, ub, hf, fs, sv, tr>>

ConcTick ==
  /\ cc.now < ConcMaxTime
  /\ cc' = [cc EXCEPT !.now = @ + 1]
  /\ UNCHANGED <<rt, ub, hf, fs, sv, tr>>

NextConc ==
  \/ ConcCall \/ ConcStart \/ ConcGet \/ ConcFetch
  \/ ConcSetLock \/ ConcSetPayload \/ ConcSetStamp \/ ConcTick

SpecConc == InitConc /\ [][NextConc]_vars

(***************************************************************************)
(* Properties of the tool requests, the fetchers and the cache.            *)
(***************************************************************************)
\* the version a request is fetched as
EffectiveVersion(r) ==
  IF r.version # "" THEN r.version
  ELSE IF r.tool = "get_lexicon" THEN "v0.19.1" ELSE "latest"


\* C13: a request whose version fails validation, or for which Build fails
\* at a later check, is answered with the error of the fetcher's
\* construction; it makes no wrapped fetch (so no network attempt and no
\* retry), no cache Get and no cache Set, and the cache is as it was for as
\* long as the request is the current one.
C13_RejectedBeforeAnyEffect ==
  /\ [](fs.req.pc # "idle" =>
          /\ ~IsVersionText(EffectiveVersion(fs.req)) => fs.req.pc = "rejected"
          /\ fs.req.pc = "rejected" =>
               /\ fs.req.gets = 0 /\ fs.req.sets = 0 /\ fs.req.fetches = 0
               /\ fs.req.res.data = NilBytes /\ fs.req.res.source = ""
               /\ fs.req.res.err =
                    Err("building fetch URL: invalid version", EffectiveVersion(fs.req))
          /\ fs.req.pc # "rejected" =>
               fs.req.source \in
                 {lexiconBaseURL \o EffectiveVersion(fs.req) \o lexiconPathSuffix,
                  schemaDocsBaseURL \o EffectiveVersion(fs.req)})
  /\ [][fs.req.pc = "rejected" => (fs.cache' = fs.cache /\ fs.req'.pc # "net")]_vars

\* a request for an absolute URL refused while the cache holds an entry
C13_Witness ==
  /\ fs.req.pc = "rejected" /\ fs.req.version = "https://evil.example/x"
  /\ fs.req.tool = "get_lexicon" /\ fs.req.fetches = 0
  /\ DOMAIN fs.cache.entries # {}

\* C14: HTTPFetcher.Fetch returns bytes only when the response RoundTrip
\* ended with, after its retries, has status exactly 200; for every other
\* final status (another 2xx, or a 5xx, 408 or 429 left when the retries
\* ran out) and for every error it returns an error, nil bytes and an
\* empty source identifier.
C14_Only200Succeeds ==
  hf.pc = "done" =>
    /\ ~hf.res.data.nil => (rt.retErr = "nil" /\ rt.retResp.status = 200)
    /\ (rt.retErr # "nil" \/ rt.retResp.status # 200) =>
         (hf.res.err # NoError /\ hf.res.data = NilBytes /\ hf.res.source = "")
    /\ (rt.retErr = "nil" /\ rt.retResp.status # 200) =>
         hf.res.err = Err("response status code", ToString(rt.retResp.status))
    /\ (hf.res.err = NoError) <=> ~hf.res.data.nil

\* a 503 still there after the fourth attempt is returned as an error
C14_Witness ==
  /\ hf.pc = "done" /\ rt.calls = 4 /\ AllTransient(rt.outs)
  /\ rt.retErr = "nil" /\ rt.retResp.status = 503
  /\ hf.res.err = Err("response status code", "503") /\ hf.res.data = NilBytes

\* C15: the bytes a successful Fetch returns are the first min(len(body),
\* cap) bytes of the body, cap being MaxResponseBytes when positive and
\* 4 MiB otherwise; a body longer than the cap is cut and returned as a
\* success.
C15_BodyCutAtCap ==
  (hf.pc = "done" /\ rt.retErr = "nil" /\ rt.retResp.status = 200 /\ ~hf.body.readErr) =>
    LET cap == IF hf.f.MaxResponseBytes > 0 THEN hf.f.MaxResponseBytes ELSE 4194304
    IN  /\ hf.res.err = NoError
        /\ hf.res.source = hf.f.fetchURL
        /\ ~hf.res.data.nil /\ hf.res.data.id = hf.body.id
        /\ hf.body.len <= cap => hf.res.data.len = hf.body.len
        /\ hf.body.len > cap => hf.res.data.len = cap

\* with MaxResponseBytes zero a body two bytes over 4 MiB comes back cut
C15_Witness ==
  /\ hf.pc = "done" /\ hf.res.err = NoError /\ hf.f.MaxResponseBytes = 0
  /\ hf.body.len = 4194304 + 2 /\ hf.res.data.len = 4194304

\* the step in which CachedFetcher.Fetch with refresh false reads the cache
GetStep == fs.req.pc = "start" /\ ~fs.req.refresh /\ fs.req'.pc # "start"

Stored(key) == key \in DOMAIN fs.cache.entries

\* the age of the entry under key at the present time
Age(key) == fs.now - fs.cache.entries[key].at

\* C16: Get(key) reports found exactly when an entry exists for key and
\* its age, now minus inserted-at, is below the TTL; at the age of exactly
\* the TTL, at any greater age, and for a key never set, it reports
\* not found.
C16_GetFoundIffLive ==
  [][GetStep =>
       /\ fs.req'.hit <=> (Stored(fs.req.source) /\ Age(fs.req.source) < TTLTicks)
       /\ ~Stored(fs.req.source) => ~fs.req'.hit
       /\ (Stored(fs.req.source) /\ Age(fs.req.source) = TTLTicks) => ~fs.req'.hit
       /\ (Stored(fs.req.source) /\ Age(fs.req.source) > TTLTicks) => ~fs.req'.hit
       /\ fs.req'.gets = 1]_vars

\* a Get at the age of exactly the TTL has missed
C16_Witness ==
  /\ fs.req.pc = "net" /\ ~fs.req.refresh /\ fs.req.gets = 1 /\ ~fs.req.hit
  /\ Stored(fs.req.source) /\ Age(fs.req.source) = TTLTicks

\* C17: Set(k, b, s) stores (b, s) under k with the present time; from
\* then on, with no other Set on k, a Get(k) before the TTL has elapsed
\* returns (b, s, found) and a Get(k) once it has elapsed returns not
\* found, the entry still being stored as it was.
C17_SetThenGet ==
  /\ [][fs.req.pc = "set" /\ fs.req'.pc = "done" =>
          /\ Stored(fs.req.source)'
          /\ fs.cache'.entries[fs.req.source] =
               [data |-> fs.req.res.data, source |-> fs.req.res.source, at |-> fs.now]
          /\ \A k \in DOMAIN fs.cache.entries \ {fs.req.source} :
               fs.cache'.entries[k] = fs.cache.entries[k]]_vars
  /\ [][fs.cache' # fs.cache => fs.req.pc = "set"]_vars
  /\ [][(GetStep /\ Stored(fs.req.source)) =>
          /\ fs.cache' = fs.cache
          /\ IF Age(fs.req.source) < TTLTicks
             THEN /\ fs.req'.pc = "done"
                  /\ fs.req'.res = FetchResult(fs.cache.entries[fs.req.source].data,
                                               fs.cache.entries[fs.req.source].source,
                                               NoError)
             ELSE fs.req'.pc = "net" /\ ~fs.req'.hit]_vars

\* a Get after the TTL has elapsed has missed, the entry still stored
C17_Witness ==
  /\ fs.req.pc = "net" /\ ~fs.req.refresh /\ fs.req.gets = 1 /\ ~fs.req.hit
  /\ Stored(fs.req.source) /\ Age(fs.req.source) > TTLTicks
  /\ ~fs.cache.entries[fs.req.source].data.nil

\* the errors HTTPFetcher.Fetch returns for the failures of a fetch: a
\* transport error, a cancellation, a status other than 200, a failed read
FetchErrors ==
  {Err("executing request", "other"), Err("executing request", "canceled"),
   Err("response status code", "503"), Err("reading response body", "read")}

\* C18: when a Fetch(refresh = false) has missed, fetched with success and
\* stored, and the next call is a Fetch(refresh = false) on the same key
\* that reads the cache within the TTL of that entry, the second call
\* returns the payload and source identifier of the first from the cache:
\* the two calls make one wrapped fetch between them.
C18_SecondCallServedFromCache ==
  [][(/\ GetStep
      /\ fs.prev.kind = "stored" /\ ~fs.prev.refresh
      /\ fs.prev.source = fs.req.source) =>
       /\ Stored(fs.req.source)
       /\ Age(fs.req.source) < TTLTicks =>
            /\ fs.req'.pc = "done" /\ fs.req'.hit
            /\ fs.req'.res = FetchResult(fs.prev.data, fs.prev.source, NoError)
            /\ fs.prev.fetches + fs.req'.fetches = 1
            /\ fs.cache' = fs.cache]_vars

C18_Witness ==
  /\ fs.req.pc = "done" /\ ~fs.req.refresh /\ fs.req.hit /\ fs.req.fetches = 0
  /\ fs.prev.kind = "stored" /\ ~fs.prev.refresh /\ fs.prev.fetches = 1
  /\ fs.prev.source = fs.req.source /\ fs.req.res.data = fs.prev.data
  /\ fs.req.res.data = Bytes("b", defaultMaxResponseBytes)

\* C19: a Fetch with refresh = true makes one call of the wrapped fetcher
\* whatever the cache holds for its key (nothing, a live entry, an expired
\* one) and makes no Get before it, nor after.
C19_RefreshAlwaysFetches ==
  /\ [](fs.req.refresh =>
          /\ fs.req.gets = 0 /\ ~fs.req.hit
          /\ fs.req.pc = "net" => fs.req.fetches = 0
          /\ fs.req.pc \in {"set", "done"} => fs.req.fetches = 1)
  /\ [][(fs.req.pc = "start" /\ fs.req.refresh /\ fs.req'.pc # "start") =>
          (fs.req'.pc = "net" /\ fs.cache' = fs.cache)]_vars

\* a refresh has gone to the wrapped fetcher past a live entry
C19_Witness ==
  /\ fs.req.refresh /\ fs.req.pc = "set" /\ fs.req.fetches = 1 /\ fs.req.gets = 0
  /\ Stored(fs.req.source) /\ Age(fs.req.source) < TTLTicks
  /\ fs.cache.entries[fs.req.source].data # fs.req.res.data

\* C20: when the wrapped fetch fails, Fetch returns its error as it is with
\* nil bytes and no source, and makes no Set: the cache changes in no step
\* of the call, so an entry live before a failed Fetch(refresh = true) is
\* what the next Fetch(refresh = false) on the key returns while it lives.
C20_FailureLeavesCache ==
  /\ [][(fs.req.pc = "net" /\ fs.req'.pc # "net" /\ fs.req'.res.err # NoError) =>
          /\ fs.req'.pc = "done" /\ fs.req'.sets = 0 /\ fs.req'.fetches = 1
          /\ fs.req'.res.err \in FetchErrors
          /\ fs.req'.res.data = NilBytes /\ fs.req'.res.source = ""
          /\ fs.cache' = fs.cache]_vars
  /\ [][fs.cache' # fs.cache => (fs.req.pc = "set" /\ fs.req.res.err = NoError)]_vars
  /\ [](fs.req.pc = "set" => (fs.req.res.err = NoError /\ ~fs.req.res.data.nil))
  /\ [][(/\ GetStep /\ fs.prev.kind = "failed" /\ fs.prev.refresh
         /\ fs.prev.source = fs.req.source
         /\ Stored(fs.req.source) /\ Age(fs.req.source) < TTLTicks) =>
          /\ fs.req'.pc = "done"
          /\ fs.req'.res.data = fs.cache.entries[fs.req.source].data
          /\ fs.req'.res.err = NoError]_vars

\* after a refresh that failed, the entry stored before it is served
C20_Witness ==
  /\ fs.req.pc = "done" /\ ~fs.req.refresh /\ fs.req.hit
  /\ fs.prev.kind = "failed" /\ fs.prev.refresh /\ fs.prev.source = fs.req.source
  /\ fs.req.res.data = Bytes("a", 1)

\* C28: Get leaves the mapping as it is: an expired entry is not removed,
\* a live one keeps its payload, source and inserted-at, so a Get never
\* lengthens a lifetime; an entry stays stored, and changes only when a Set
\* on its key writes over it.
C28_GetChangesNothing ==
  /\ [][GetStep => fs.cache' = fs.cache]_vars
  /\ [][\A k \in DOMAIN fs.cache.entries :
          /\ k \in DOMAIN fs.cache'.entries
          /\ fs.cache'.entries[k] # fs.cache.entries[k] =>
               (fs.req.pc = "set" /\ fs.req.source = k)]_vars
  /\ [][(GetStep /\ Stored(fs.req.source) /\ Age(fs.req.source) >= TTLTicks) =>
          /\ fs.req'.pc = "net" /\ ~fs.req'.hit
          /\ Stored(fs.req.source)']_vars

\* a Get has missed on an expired entry, which is still stored
C28_Witness ==
  /\ fs.req.pc = "net" /\ ~fs.req.refresh /\ fs.req.gets = 1
  /\ Stored(fs.req.source) /\ Age(fs.req.source) >= TTLTicks
  /\ fs.cache.entries[fs.req.source].data = Bytes("a", 1)

\* C29: a Fetch(refresh = false) that hits returns the payload and source
\* of the stored entry and a nil error, calls neither the wrapped fetcher
\* nor Set, and leaves the cache, the entry's inserted-at included, as it
\* was.
C29_HitReturnsEntry ==
  /\ [][(GetStep /\ Get(fs.cache, fs.req.source, fs.now).found) =>
          /\ fs.req'.pc = "done" /\ fs.req'.hit
          /\ fs.req'.res = FetchResult(fs.cache.entries[fs.req.source].data,
                                       fs.cache.entries[fs.req.source].source,
                                       NoError)
          /\ fs.req'.fetches = 0 /\ fs.req'.sets = 0
          /\ fs.cache' = fs.cache]_vars
  /\ [](fs.req.hit =>
          /\ fs.req.pc = "done" /\ ~fs.req.refresh /\ fs.req.gets = 1
          /\ fs.req.fetches = 0 /\ fs.req.sets = 0 /\ fs.req.res.err = NoError)
  /\ [][fs.req.hit /\ fs.req'.hit => fs.cache' = fs.cache]_vars

\* a hit on an entry stored one tick before, whose inserted-at is unchanged
C29_Witness ==
  /\ fs.req.hit /\ fs.req.pc = "done" /\ fs.now = 1
  /\ fs.cache.entries[fs.req.source].at = 0
  /\ fs.req.res = FetchResult(Bytes("a", 1), fs.req.source, NoError)

\* C30: a Fetch that went to the wrapped fetcher, after a miss or with
\* refresh = true, and got a result stores it: after the Set the entry of
\* the key is the fresh payload and source with the time of the Set,
\* whatever was stored before, and the call returns the fresh result; the
\* next Fetch(refresh = false) on the key within the TTL returns that
\* payload.
C30_FreshResultStored ==
  /\ [][(fs.req.pc = "net" /\ fs.req'.pc # "net" /\ fs.req'.res.err = NoError) =>
          /\ fs.req'.pc = "set" /\ ~fs.req'.res.data.nil
          /\ fs.req'.res.source = fs.req.f.fetchURL]_vars
  /\ [][fs.req.pc = "set" /\ fs.req'.pc # "set" =>
          /\ fs.req'.pc = "done" /\ fs.req'.res = fs.req.res /\ fs.req'.sets = 1
          /\ fs.cache'.entries[fs.req.source] =
               [data |-> fs.req.res.data, source |-> fs.req.res.source,
                at |-> fs.now]]_vars
  /\ [][(/\ GetStep /\ fs.prev.kind = "stored" /\ fs.prev.source = fs.req.source
         /\ Age(fs.req.source) < TTLTicks) =>
          /\ fs.req'.pc = "done"
          /\ fs.req'.res = FetchResult(fs.prev.data, fs.prev.source, NoError)]_vars

\* a refresh has replaced the live entry stored by the call before it
C30_Witness ==
  /\ fs.req.pc = "done" /\ fs.req.refresh /\ fs.req.sets = 1
  /\ fs.prev.kind = "stored" /\ fs.prev.source = fs.req.source
  /\ fs.prev.data = Bytes("b", defaultMaxResponseBytes)
  /\ fs.req.res.data = Bytes("a", 1) /\ fs.now = 1
  /\ fs.cache.entries[fs.req.source] =
       [data |-> Bytes("a", 1), source |-> fs.req.source, at |-> 1]

(***************************************************************************)
(* Properties of RoundTrip: retrying and termination.                      *)
(***************************************************************************)
\* the step of an attempt below the retry bound with a retryable outcome
RetryableAttempt ==
  /\ rt.pc = "attempt" /\ rt'.calls = rt.calls + 1
  /\ rt.attempt < rt.maxRetry /\ Last(rt'.outs) = "transient"

\* the call ended after a retryable outcome of an attempt below the bound
EndedBelowBound ==
  /\ rt.pc = "done" /\ rt.outs # <<>> /\ Last(rt.outs) = "transient"
  /\ rt.attempt < rt.maxRetry

\* C25 as stated: a call that ended after a retryable outcome of an attempt
\* below the retry bound ended on the cancellation of its context, in the
\* wait.
C25_OriginalClaim ==
  EndedBelowBound =>
    /\ rt.ctx # "live" /\ rt.retErr = rt.ctx /\ rt.retResp = NilResp
    /\ rt.sleeps = rt.calls

\* C25 amended: after a retryable outcome of an attempt below the retry
\* bound, RoundTrip waits and makes another attempt unless the request has
\* a body that cannot be rebuilt or the context is cancelled in the wait;
\* for a request with no body the cancellation of the context is the only
\* way retrying stops below the bound.
C25_RetryUnlessCancelled ==
  /\ [][RetryableAttempt =>
          \/ rt'.pc = "select" /\ rt'.sleeps = rt.sleeps + 1
          \/ rt.body # "nil" /\ rt'.pc = "done" /\ rt'.rebuilds = rt.rebuilds]_vars
  /\ [][(rt.pc \in {"select", "parked"} /\ rt'.pc \notin {"select", "parked"}) =>
          \/ /\ rt'.pc = "attempt" /\ rt'.attempt = rt.attempt + 1
             /\ rt'.attempt <= rt.maxRetry /\ rt'.calls = rt'.attempt
          \/ /\ rt'.pc = "done" /\ rt.ctx # "live"
             /\ rt'.retErr = rt.ctx /\ rt'.retResp = NilResp]_vars
  /\ []((EndedBelowBound /\ rt.body = "nil") =>
          /\ rt.ctx # "live" /\ rt.retErr = rt.ctx /\ rt.retResp = NilResp
          /\ rt.sleeps = rt.calls)
  /\ [](rt.pc = "attempt" => ENABLED Attempt)

\* the third attempt is about to be made after two retryable outcomes
C25_Witness ==
  /\ rt.pc = "attempt" /\ rt.attempt = 2 /\ rt.calls = 2 /\ rt.maxRetry = 3
  /\ AllTransient(rt.outs) /\ rt.body = "nil" /\ rt.ctx = "live"

\* C26: after a retryable outcome of an attempt below the retry bound, a
\* request with a body and no GetBody, or whose GetBody fails, is not tried
\* again: the response and error of that attempt are returned, the response
\* left open; when GetBody succeeds the body is replaced before the wait,
\* once for every retry.
C26_BodyRebuiltOrGivenUp ==
  /\ [][RetryableAttempt =>
          /\ (rt.body = "noGetBody" \/ rt'.getBodyErr) =>
               /\ rt'.pc = "done"
               /\ rt'.retResp = rt'.resp /\ rt'.retErr = rt'.respErr
               /\ rt'.sleeps = rt.sleeps /\ rt'.rebuilds = rt.rebuilds
               /\ rt'.closed = 0
          /\ (rt.body = "getBody" /\ ~rt'.getBodyErr) =>
               rt'.pc = "select" /\ rt'.rebuilds = rt.rebuilds + 1
          /\ rt.body # "getBody" => (~rt'.getBodyErr /\ rt'.rebuilds = 0)]_vars
  /\ [][rt.pc = "done" => rt' = rt]_vars
  /\ [](rt.body = "getBody" => rt.rebuilds = rt.sleeps)
  /\ [](rt.pc = "attempt" => rt.sleeps = rt.attempt)

\* a request with a body was retried twice, its body rebuilt each time,
\* and given up at the third attempt when GetBody failed
C26_Witness ==
  /\ rt.pc = "done" /\ rt.body = "getBody" /\ rt.getBodyErr
  /\ rt.rebuilds = 2 /\ rt.calls = 3 /\ rt.maxRetry = 3
  /\ rt.retResp = Resp(503, "") /\ rt.retErr = "nil" /\ rt.closed = 0

\* C27: when every attempt returns and every timer fires, a RoundTrip call
\* returns in the end, whatever the outcomes and whenever the context is
\* cancelled; with maxRetry <= 0 it makes one attempt and never sleeps.
C27_Terminates ==
  /\ <>(rt.pc = "done")
  /\ [](rt.maxRetry <= 0 =>
          /\ rt.sleeps = 0 /\ rt.calls <= 1
          /\ rt.pc = "done" <=> rt.calls = 1)

C27_Witness ==
  /\ rt.pc = "done" /\ rt.maxRetry = -1 /\ rt.calls = 1 /\ rt.sleeps = 0
  /\ rt.resp.status = 503 /\ rt.retResp = rt.resp

\* the attempt made last came back with a response
GotResponse == rt.calls > 0 /\ rt.respErr = "nil" /\ ~rt.resp.nil

\* RoundTrip has returned the response of its last attempt
ReturnedResponse == rt.pc = "done" /\ ~rt.retResp.nil

\* C35: the response of an attempt is either the one RoundTrip returns,
\* and then its body has not been closed by the transport, or its body has
\* been closed exactly once by the time the attempt's step is over, before
\* the wait, the next attempt and the return; it is closed in no later
\* step, and an attempt without a response closes nothing.
C35_BodyClosedOrReturned ==
  /\ [](rt.closed \in {0, 1})
  /\ [](ReturnedResponse => GotResponse /\ rt.retResp = rt.resp /\ rt.closed = 0)
  /\ []((GotResponse /\ ~ReturnedResponse /\ rt.pc # "attempt") => rt.closed = 1)
  /\ []((GotResponse /\ rt.pc = "attempt") => rt.closed = 1)
  /\ [](~GotResponse => rt.closed = 0)
  /\ [][rt.calls' = rt.calls => rt.closed' = rt.closed]_vars

\* a 503 was answered below the bound and its body closed; the context was
\* cancelled in the wait and RoundTrip returned no response
C35_Witness ==
  /\ rt.pc = "done" /\ rt.retResp.nil /\ rt.retErr = "canceled"
  /\ GotResponse /\ rt.resp.status = 503
  /\ rt.closed = 1 /\ rt.sleeps = 1 /\ rt.calls = 1

(***************************************************************************)
(* Properties of the modes and of the prompt handlers.                     *)
(***************************************************************************)
\* C23: a server on which AdvisoryMode has been registered lists the tools
\* get_lexicon, validate_gemara_artifact and get_schema_docs and neither
\* the prompt threat_assessment nor control_catalog; one on which
\* ArtifactMode has been registered lists the same three tools and both
\* prompts.
C23_ModesRegister ==
  /\ sv.modeName \in {"advisory", "artifact"} =>
       /\ sv.err = NoError /\ ~sv.server.nil
       /\ sv.server.tools =
            {"get_lexicon", "validate_gemara_artifact", "get_schema_docs"}
  /\ sv.modeName = "advisory" =>
       sv.server.prompts \cap {"threat_assessment", "control_catalog"} = {}
  /\ sv.modeName = "artifact" =>
       {"threat_assessment", "control_catalog"} \subseteq sv.server.prompts

C23_Witness ==
  /\ sv.modeName = "artifact" /\ Cardinality(sv.server.tools) = 3
  /\ sv.server.prompts = {"threat_assessment", "control_catalog"}

\* the request of the last handler call lacks Params or Arguments
NoArguments == ~sv.req.params \/ ~sv.req.arguments

\* its component is missing, empty, too long or not of the pattern
BadComponent ==
  \/ "component" \notin DOMAIN sv.req.args
  \/ sv.req.args["component"] = ""
  \/ Len(sv.req.args["component"]) > 200
  \/ Ch(sv.req.args["component"], 1) \notin Letters \cup Digits
  \/ ~(Chars(sv.req.args["component"])
         \subseteq Letters \cup Digits \cup Chars(" ._-"))

\* its id_prefix is missing, empty, too long or not of the pattern
BadIDPrefix ==
  \/ "id_prefix" \notin DOMAIN sv.req.args
  \/ sv.req.args["id_prefix"] = ""
  \/ Len(sv.req.args["id_prefix"]) > 200
  \/ ~(Chars(sv.req.args["id_prefix"]) \subseteq Upper \cup Digits \cup Chars(".-"))

\* C24: either prompt handler returns an error and a nil result when the
\* request has nil Params or nil Arguments, when the component is missing,
\* empty, longer than 200 bytes or not of ^[a-zA-Z0-9][a-zA-Z0-9 ._-]*$,
\* and when the id_prefix is missing, empty, longer than 200 bytes or not
\* of ^[A-Z0-9.-]+$; with both arguments invalid the error is that of the
\* component.
C24_InvalidArgumentsRejected ==
  sv.handler # "" =>
    /\ (NoArguments \/ BadComponent \/ BadIDPrefix) =>
         (sv.res.err # NoError /\ sv.res.result = NilPromptResult)
    /\ (~NoArguments /\ BadComponent) => HasPrefix(sv.res.err.kind, "component")
    /\ (~NoArguments /\ ~BadComponent /\ BadIDPrefix) =>
         HasPrefix(sv.res.err.kind, "id_prefix")

\* both arguments are invalid and the error is the component's
C24_Witness ==
  /\ sv.handler = "control_catalog"
  /\ sv.req.arguments /\ sv.req.args = Arguments("a/b", "acme")
  /\ sv.res.err = Err("component must match", "a/b") /\ sv.res.result.nil

\* where sub occurs in s
Occurrences(s, sub) ==
  {i \in 1 .. Len(s) - Len(sub) + 1 : SubSeq(s, i, i + Len(sub) - 1) = sub}

\* the templates of a handler, system then user
TemplatesOf(handler) ==
  IF handler = PromptThreatAssessment
  THEN <<threatAssessmentSystemTemplate, threatAssessmentUserTemplate>>
  ELSE <<controlCatalogSystemTemplate, controlCatalogUserTemplate>>

\* by how much the text before position p of template t has grown once
\* every placeholder before p has given way to its argument
Growth(t, p, component, idPrefix) ==
  Cardinality({q \in Occurrences(t, "${COMPONENT}") : q < p})
    * (Len(component) - Len("${COMPONENT}"))
  + Cardinality({q \in Occurrences(t, "${ID_PREFIX}") : q < p})
    * (Len(idPrefix) - Len("${ID_PREFIX}"))

\* text is template t with each placeholder, and nothing else, turned into
\* its argument: no placeholder is left, each argument stands where its
\* placeholder stood, the length is that of t with the placeholders
\* exchanged, and the only "$" left are those of t outside a placeholder
Substituted(text, t, component, idPrefix) ==
  /\ Occurrences(text, "${COMPONENT}") = {}
  /\ Occurrences(text, "${ID_PREFIX}") = {}
  /\ \A p \in Occurrences(t, "${COMPONENT}") :
       SubSeq(text, p + Growth(t, p, component, idPrefix),
              p + Growth(t, p, component, idPrefix) + Len(component) - 1) = component
  /\ \A p \in Occurrences(t, "${ID_PREFIX}") :
       SubSeq(text, p + Growth(t, p, component, idPrefix),
              p + Growth(t, p, component, idPrefix) + Len(idPrefix) - 1) = idPrefix
  /\ Len(text) = Len(t) + Growth(t, Len(t) + 1, component, idPrefix)
  /\ Count(text, "$") = Count(t, "$")
                        - Cardinality(Occurrences(t, "${COMPONENT}"))
                        - Cardinality(Occurrences(t, "${ID_PREFIX}"))

\* C34: a prompt handler that succeeds returns two messages, the first of
\* the assistant and the second of the user, whose texts are its system and
\* its user template with every ${COMPONENT} and every ${ID_PREFIX}, and
\* nothing else, turned into the argument; the arguments it has accepted
\* hold none of "$", "{" and "}", so no placeholder is left and none comes
\* in with an argument.
C34_PlaceholdersReplaced ==
  (sv.handler # "" /\ sv.res.err = NoError) =>
    /\ ~sv.res.result.nil
    /\ Len(sv.res.result.Messages) = 2
    /\ sv.res.result.Messages[1].Role = "assistant"
    /\ sv.res.result.Messages[2].Role = "user"
    /\ \A m \in 1 .. 2 :
         Substituted(sv.res.result.Messages[m].Text, TemplatesOf(sv.handler)[m],
                     Argument(sv.req, "component"), Argument(sv.req, "id_prefix"))
    /\ \A c \in {"$", "{", "}"} :
         /\ Count(Argument(sv.req, "component"), c) = 0
         /\ Count(Argument(sv.req, "id_prefix"), c) = 0

\* the control catalog prompt for "container runtime" and ACME.PLAT.CR: the
\* "$" of the regular expression the template quotes is still there
C34_Witness ==
  /\ sv.handler = PromptControlCatalog /\ sv.res.err = NoError
  /\ Argument(sv.req, "component") = "container runtime"
  /\ Argument(sv.req, "id_prefix") = "ACME.PLAT.CR"
  /\ sv.res.result.Messages[1].Text =
       "Control Catalog for: **container runtime** (ID prefix: ACME.PLAT.CR). All ACME.PLAT.CR values must strictly follow the regex ^[A-Z0-9.-]+$. id: ACME.PLAT.CR title: container runtime Security Control Catalog"
  /\ sv.res.result.Messages[2].Text = "controls of container runtime with ACME.PLAT.CR"

(***************************************************************************)
(* Properties of concurrent calls on one cache.                            *)
(***************************************************************************)
InGet(c) == cc.p[c].cs = "get"
InSet(c) == cc.p[c].cs \in {"set1", "set2"}
KeyOf(c) == cc.p[c].r.source

\* the entry a call of Fetch by c hands to Set
EntryOf(c, now) ==
  [data |-> cc.p[c].r.res.data, source |-> cc.p[c].r.res.source, at |-> now]

\* C21: however the steps of the callers interleave, a Set on the mapping
\* excludes every other Set and every Get, the lock being held exactly for
\* the length of the operation, and an entry is replaced as a whole: what a
\* Get reads, and what a hit returns, is payload, source and inserted-at
\* of one and the same Set.
C21_GetSetExclusive ==
  /\ \A c, d \in Callers : (c # d /\ InSet(c)) => (~InSet(d) /\ ~InGet(d))
  /\ \A c \in Callers : (InGet(c) \/ InSet(c)) <=> cc.mu = c
  /\ \A c \in Callers :
       (InGet(c) /\ KeyOf(c) \in DOMAIN cc.cache.entries) =>
         /\ KeyOf(c) \in DOMAIN cc.lastSet
         /\ cc.cache.entries[KeyOf(c)] = cc.lastSet[KeyOf(c)]
  /\ \A c \in Callers :
       cc.p[c].r.hit =>
         \E w \in Callers \cup {"c0"} :
           /\ cc.p[c].r.res.data = CallerPayload(w)
           /\ cc.p[c].r.res.source = CallerSource(w)

\* c1 is half way through a Set, the payload written and the rest not,
\* while c2 waits to Get the same key
C21_Witness ==
  /\ cc.p["c1"].cs = "set2" /\ cc.mu = "c1"
  /\ cc.p["c2"].r.pc = "start" /\ ~cc.p["c2"].r.refresh /\ cc.p["c2"].cs = "out"
  /\ KeyOf("c1") = "k1" /\ KeyOf("c2") = "k1"
  /\ cc.cache.entries["k1"].data = CallerPayload("c1")
  /\ cc.cache.entries["k1"].source = CallerSource("c0")

\* C22: the entry of a key, whenever no Set is under way, is the one of
\* the Set on that key that returned last, in whatever order the calls
\* began: a Set that returns leaves exactly its own entry under its key,
\* and no step but that of a Set on the key changes the entry of a key.
C22_LastSetWins ==
  /\ []((\A c \in Callers : ~InSet(c)) =>
          /\ DOMAIN cc.cache.entries = DOMAIN cc.lastSet
          /\ \A k \in DOMAIN cc.cache.entries : cc.cache.entries[k] = cc.lastSet[k])
  /\ [][\A c \in Callers :
          (cc.p[c].cs = "set2" /\ cc.p'[c].cs = "out") =>
            /\ cc.cache'.entries[KeyOf(c)] = EntryOf(c, cc.now)
            /\ cc.lastSet'[KeyOf(c)] = EntryOf(c, cc.now)
            /\ cc.p'[c].r.pc = "done" /\ cc.p'[c].r.res = cc.p[c].r.res]_vars
  /\ [][\A k \in DOMAIN cc.cache.entries :
          /\ k \in DOMAIN cc.cache'.entries
          /\ cc.cache'.entries[k] # cc.cache.entries[k] =>
               \E c \in Callers :
                 InSet(c) /\ KeyOf(c) = k /\ cc.p'[c].cs # cc.p[c].cs]_vars

\* both calls have stored under k1; c1 began first and its Set returned
\* last, so the entry is c1's while k2 has none
C22_Witness ==
  /\ \A c \in Callers : cc.p[c].r.pc = "done" /\ cc.p[c].r.sets = 1 /\ KeyOf(c) = "k1"
  /\ cc.first = "c1"
  /\ cc.cache.entries["k1"].data = CallerPayload("c1")
  /\ cc.cache.entries["k1"].source = CallerSource("c1")
  /\ cc.lastSet = cc.cache.entries /\ "k2" \notin DOMAIN cc.cache.entries

(***************************************************************************)
(* Properties of the population of the cache.                              *)
(***************************************************************************)
\* C31: the cache starts empty; a call of CachedFetcher.Fetch reaches its
\* Set only with its one wrapped fetch made and returned without error, and
\* never after a hit; and the cache changes in no step but that Set, which
\* puts what the wrapped fetch returned under the key of the call and
\* leaves every other key as it was.
C31_OnlyFetchPopulates ==
  /\ DOMAIN fs.cache.entries = {}
  /\ []((fs.req.pc = "set" \/ fs.req.sets > 0) =>
          /\ fs.req.fetches = 1
          /\ fs.req.res.err = NoError
          /\ ~fs.req.hit)
  /\ [][fs.cache' # fs.cache =>
          /\ fs.req.pc = "set" /\ fs.req'.pc = "done"
          /\ fs.req'.sets = fs.req.sets + 1
          /\ fs.cache'.ttl = fs.cache.ttl
          /\ DOMAIN fs.cache'.entries = DOMAIN fs.cache.entries \cup {fs.req.source}
          /\ fs.cache'.entries[fs.req.source] =
               [data |-> fs.req.res.data, source |-> fs.req.res.source, at |-> fs.now]
          /\ \A k \in DOMAIN fs.cache.entries \ {fs.req.source} :
               fs.cache'.entries[k] = fs.cache.entries[k]]_vars

\* the first entry of the cache, put there by a call whose fetch succeeded,
\* after a call on the same key whose fetch failed and left the cache empty
C31_Witness ==
  /\ fs.req.pc = "done" /\ fs.req.sets = 1 /\ fs.req.fetches = 1
  /\ DOMAIN fs.cache.entries = {fs.req.source}
  /\ fs.prev.kind = "failed" /\ fs.prev.source = fs.req.source

(***************************************************************************)
(* Properties of the cache under the wiring of the tool handlers.          *)
(***************************************************************************)
\* the URLs the handlers hand to NewCachedFetcher as keys
FetchURLs ==
  {Fetchers[tv[1]][tv[2]].f.fetchURL :
     tv \in {x \in Tools \X FetchVersions : Fetchers[x[1]][x[2]].err = NoError}}

\* data is what is read, up to the cap, of a body that came with a 200
CappedBodyOf200(data) ==
  \E body \in FetchBodies :
    /\ ~body.readErr
    /\ data = Bytes(body.id, IF body.len > defaultMaxResponseBytes
                             THEN defaultMaxResponseBytes ELSE body.len)

\* C37: the key of a CachedFetcher is the URL its HTTPFetcher fetches; every
\* entry of the cache stands under such a URL, names that URL as its source
\* identifier and holds the body of a 200, cut at the cap, never the body
\* of another response; and a hit returns the key as source identifier, as
\* a fetch of the same fetcher does.
C37_CacheHoldsFetchedBodies ==
  /\ fs.req.pc \in {"start", "net", "set", "done"} =>
       fs.req.f.ok /\ fs.req.source = fs.req.f.fetchURL
  /\ \A k \in DOMAIN fs.cache.entries :
       /\ k \in FetchURLs
       /\ fs.cache.entries[k].source = k
       /\ CappedBodyOf200(fs.cache.entries[k].data)
       /\ fs.cache.entries[k].data.id # ErrorBody.id
  /\ (fs.req.pc = "done" /\ fs.req.res.err = NoError) =>
       /\ fs.req.res.source = fs.req.f.fetchURL
       /\ fs.req.res.source =
            HTTPFetcherFetch(fs.req.f, Resp(200, ""), "nil",
                             [id |-> "a", len |-> 1, readErr |-> FALSE]).source
       /\ CappedBodyOf200(fs.req.res.data)

\* a hit on the lexicon of the default version, stored by the call before:
\* the entry holds the long body cut at the cap
C37_Witness ==
  /\ fs.req.pc = "done" /\ fs.req.hit
  /\ fs.req.source =
       "https://raw.githubusercontent.com/gemaraproj/gemara/v0.19.1/docs/lexicon.yaml"
  /\ fs.req.res.source = fs.req.source
  /\ fs.req.res.data = Bytes("b", defaultMaxResponseBytes)
  /\ fs.cache.entries[fs.req.source].data = Bytes("b", defaultMaxResponseBytes)
  /\ fs.prev.kind = "stored"

\* the versions the validator accepts among those requested
ValidVersions == {v \in FetchVersions \ {""} : ValidateVersion(v) = NoError}

\* the URL a request of a tool for a version is fetched from
URLOf(tool, version) == Fetchers[tool][version].f.fetchURL

\* the URL of the request being handled
OwnURL == URLOf(fs.req.tool, EffectiveVersion(fs.req))

\* C38: each of the two builders gives different URLs for different valid
\* versions, and the two never give the same URL; a request that succeeds
\* returns the document of its own URL, hit or not; every entry of the
\* shared cache holds the document of its key; and no step puts the
\* document of another URL in the place of a cached one.
C38_KeysSeparateRequests ==
  /\ \A tool \in Tools : \A v, w \in ValidVersions :
       /\ Fetchers[tool][v].err = NoError
       /\ v # w => URLOf(tool, v) # URLOf(tool, w)
  /\ \A v, w \in ValidVersions : URLOf("get_lexicon", v) # URLOf("get_schema_docs", w)
  /\ []((fs.req.pc = "done" /\ fs.req.res.err = NoError) =>
          /\ fs.req.source = OwnURL
          /\ fs.req.res.data.id = OwnURL
          /\ fs.req.res.source = OwnURL)
  /\ [](\A k \in DOMAIN fs.cache.entries : fs.cache.entries[k].data.id = k)
  /\ [][\A k \in DOMAIN fs.cache.entries :
          /\ k \in DOMAIN fs.cache'.entries
          /\ fs.cache'.entries[k].data.id = fs.cache.entries[k].data.id
          /\ fs.cache'.entries[k] # fs.cache.entries[k] => k = OwnURL]_vars

\* the cache holds the lexicon of v0.19.1 in its second revision, the
\* lexicon of v0.19.10 and the schema docs of v0.19.1; a request for the
\* lexicon of v0.19.10 is a hit and returns the document of v0.19.10
C38_Witness ==
  /\ fs.req.pc = "done" /\ fs.req.hit
  /\ fs.req.tool = "get_lexicon" /\ fs.req.version = "v0.19.10"
  /\ fs.req.res.data.id =
       "https://raw.githubusercontent.com/gemaraproj/gemara/v0.19.10/docs/lexicon.yaml"
  /\ URLOf("get_lexicon", "v0.19.1") \in DOMAIN fs.cache.entries
  /\ fs.cache.entries[URLOf("get_lexicon", "v0.19.1")].data =
       Bytes("https://raw.githubusercontent.com/gemaraproj/gemara/v0.19.1/docs/lexicon.yaml", 2)
  /\ "https://registry.cue.works/docs/github.com/gemaraproj/gemara@v0.19.1"
       \in DOMAIN fs.cache.entries

\* the URL each tool fetches when no version is asked for
DefaultURL(tool) ==
  IF tool = "get_lexicon"
  THEN "https://raw.githubusercontent.com/gemaraproj/gemara/v0.19.1/docs/lexicon.yaml"
  ELSE "https://registry.cue.works/docs/github.com/gemaraproj/gemara@latest"

\* the version that, named in a request, stands for the same document
NamedDefault(tool) == IF tool = "get_lexicon" THEN "v0.19.1" ELSE "latest"

\* C39: the validator would reject the empty version, yet a request with
\* an empty version is never rejected: it is fetched from the URL of
\* v0.19.1 (get_lexicon) or of latest (get_schema_docs), which is the URL,
\* and so the cache key, of the request that names that version; it is
\* served from the entry under that key and stores under it.
C39_EmptyVersionIsDefault ==
  /\ ValidateVersion("") # NoError
  /\ \A tool \in Tools :
       /\ Fetchers[tool][""].err = NoError
       /\ Fetchers[tool][""] = Fetchers[tool][NamedDefault(tool)]
       /\ Fetchers[tool][""].f.fetchURL = DefaultURL(tool)
  /\ (fs.req.pc # "idle" /\ fs.req.version \in {"", NamedDefault(fs.req.tool)}) =>
       /\ fs.req.pc # "rejected"
       /\ fs.req.source = DefaultURL(fs.req.tool)
       /\ fs.req.f.fetchURL = DefaultURL(fs.req.tool)
       /\ fs.req.hit =>
            /\ DefaultURL(fs.req.tool) \in DOMAIN fs.cache.entries
            /\ fs.req.res.data = fs.cache.entries[DefaultURL(fs.req.tool)].data
       /\ fs.req.sets = 1 =>
            /\ DefaultURL(fs.req.tool) \in DOMAIN fs.cache.entries
            /\ fs.cache.entries[DefaultURL(fs.req.tool)].data = fs.req.res.data

\* a get_schema_docs request without a version, served from the entry
\* under the URL of latest that the request before it stored
C39_Witness ==
  /\ fs.req.pc = "done" /\ fs.req.tool = "get_schema_docs" /\ fs.req.version = ""
  /\ fs.req.hit /\ fs.req.fetches = 0
  /\ fs.req.res.source = "https://registry.cue.works/docs/github.com/gemaraproj/gemara@latest"
  /\ fs.prev.kind = "stored" /\ fs.prev.source = fs.req.source
  /\ fs.prev.data = fs.req.res.data

(***************************************************************************)
(* Properties of concurrent misses and of the lock during a fetch.         *)
(***************************************************************************)
\* the call of c, made with refresh false, has read the cache and missed
Missed(c) ==
  /\ ~cc.p[c].r.refresh /\ cc.p[c].r.gets = 1 /\ ~cc.p[c].r.hit
  /\ cc.p[c].r.pc \in {"net", "set", "done"}

\* the wrapped fetch of c is under way
InFlight(c) == cc.p[c].r.pc = "net"

\* C32: a call that missed makes its own wrapped fetch and, when that
\* succeeds, its own Set, whatever the other caller does on the same key:
\* it returns what its own fetch returned, after exactly one fetch and one
\* Set, and the return of one caller's fetch changes nothing in the call
\* of the other.
C32_MissesNotDeduplicated ==
  /\ [](\A c \in Callers :
          Missed(c) =>
            /\ InFlight(c) => cc.p[c].r.fetches = 0 /\ cc.p[c].r.sets = 0
            /\ cc.p[c].r.pc = "set" =>
                 /\ cc.p[c].r.fetches = 1 /\ cc.p[c].r.sets = 0
                 /\ cc.p[c].r.res = FetchResult(CallerPayload(c), CallerSource(c), NoError)
            /\ cc.p[c].r.pc = "done" =>
                 /\ cc.p[c].r.fetches = 1
                 /\ IF cc.p[c].r.res.err = NoError
                    THEN /\ cc.p[c].r.sets = 1
                         /\ cc.p[c].r.res =
                              FetchResult(CallerPayload(c), CallerSource(c), NoError)
                    ELSE cc.p[c].r.sets = 0)
  /\ [][\A c, d \in Callers :
          (c # d /\ InFlight(c) /\ InFlight(d) /\ cc.p'[c].r # cc.p[c].r) =>
            /\ cc.p'[d].r = cc.p[d].r
            /\ cc.p'[c].r.fetches = 1]_vars

\* both callers have missed on k2 and the fetches of both are under way
C32_Witness ==
  /\ \A c \in Callers : Missed(c) /\ InFlight(c) /\ KeyOf(c) = "k2"
  /\ cc.mu = "" /\ "k2" \notin DOMAIN cc.cache.entries

\* caller d is at a Lock() of the cache: before its Get or before its Set
AtLock(d) ==
  /\ cc.p[d].cs = "out"
  /\ \/ cc.p[d].r.pc = "start" /\ ~cc.p[d].r.refresh
     \/ cc.p[d].r.pc = "set"

\* C33: a caller whose wrapped fetch is under way is outside the cache and
\* does not hold its lock; so another caller that comes to the lock for a
\* Get or a Set, on the same key or on another, finds it free, and one
\* that is inside a Get or a Set holds the lock itself.
C33_NoLockDuringFetch ==
  \A c \in Callers :
    InFlight(c) =>
      /\ cc.mu # c /\ cc.p[c].cs = "out"
      /\ \A d \in Callers \ {c} :
           /\ AtLock(d) => CanLock(cc.mu)
           /\ (InGet(d) \/ InSet(d)) => cc.mu = d

\* c1 missed on k2 and its fetch is still under way; c2 has since made its
\* Set on k2 and returned
C33_Witness ==
  /\ Missed("c1") /\ InFlight("c1") /\ KeyOf("c1") = "k2"
  /\ KeyOf("c2") = "k2" /\ cc.p["c2"].r.pc = "done" /\ cc.p["c2"].r.sets = 1
  /\ cc.cache.entries["k2"].data = CallerPayload("c2")
  /\ cc.mu = ""

\* both calls that missed on k2 have returned what they fetched themselves
BothMissesCompleted ==
  \A c \in Callers :
    /\ Missed(c) /\ KeyOf(c) = "k2" /\ cc.p[c].r.pc = "done"
    /\ cc.p[c].r.sets = 1 /\ cc.p[c].r.res.data = CallerPayload(c)

(***************************************************************************)
(* Properties of concurrent calls of RoundTrip.                            *)
(***************************************************************************)
\* the call of caller c has begun
Begun(c) == tr.calls[c].pc # "idle"

\* C40: the transport is written by no call, and a step of one call leaves
\* the other call as it was; so each call counts its own attempts, waits
\* as its own last response asks, has the whole bound of the transport to
\* itself, and ends below that bound only on an outcome of its own that is
\* not retried or on the cancellation of its own context.
C40_RetryStatePerCall ==
  /\ [][tr.t' = tr.t]_vars
  /\ [][\A c, d \in Callers :
          (c # d /\ tr.calls'[c] # tr.calls[c]) => tr.calls'[d] = tr.calls[d]]_vars
  /\ [](\A c \in Callers :
          Begun(c) =>
            /\ tr.calls[c].calls <= tr.t.maxRetry + 1
            /\ tr.calls[c].calls = Len(tr.calls[c].outs)
            /\ tr.calls[c].attempt =
                 IF tr.calls[c].pc = "attempt" THEN tr.calls[c].calls
                 ELSE tr.calls[c].calls - 1
            /\ tr.calls[c].pc \in {"select", "parked"} =>
                 tr.calls[c].timer =
                   IF retryAfter(tr.calls[c].resp) > 0
                   THEN retryAfter(tr.calls[c].resp) ELSE tr.t.wait
            /\ (tr.calls[c].pc = "done" /\ tr.calls[c].calls <= tr.t.maxRetry) =>
                 \/ Last(tr.calls[c].outs) # "transient"
                 \/ tr.calls[c].ctx # "live"
            /\ (tr.calls[c].pc = "done" /\ tr.calls[c].ctx = "live"
                  /\ AllTransient(tr.calls[c].outs)) =>
                 tr.calls[c].calls = tr.t.maxRetry + 1
            /\ (tr.calls[c].pc = "done" /\ tr.calls[c].retErr = "canceled") =>
                 tr.calls[c].ctx = "canceled")

\* on the transport of bound 3, the request of c1 was cancelled in its
\* first wait and that of c2 used up all four attempts
C40_Witness ==
  /\ tr.t.maxRetry = 3
  /\ tr.calls["c1"].pc = "done" /\ tr.calls["c1"].retErr = "canceled"
  /\ tr.calls["c1"].calls = 1 /\ tr.calls["c1"].sleeps = 1
  /\ tr.calls["c2"].pc = "done" /\ tr.calls["c2"].ctx = "live"
  /\ tr.calls["c2"].calls = 4 /\ AllTransient(tr.calls["c2"].outs)
  /\ tr.calls["c2"].retResp.status = 503

====
